---- MODULE Spec2Model ----
(***************************************************************************)
(* A model of the request-execution core of productboard-mcp:              *)
(* ProductboardAPIClient (src/src/api/client.ts) with its interceptors,    *)
(* error classifier, retry-wrapped verbs, page aggregator and batch        *)
(* executor, and BaseTool (src/tools/base.ts) with its permission gate,    *)
(* execute and the logic of four tools, and the client-side pagination of  *)
(* ListFeaturesTool (src/src/tools/features/list-features.ts).             *)
(*                                                                         *)
(* RetryHandler (@utils/retry.js), isRetryableError (./errors.js) and      *)
(* RateLimiter (@middleware/rateLimiter.js) are imported by client.ts but  *)
(* their sources are not part of the tree; they are modelled from          *)
(* spec.md 4.2 and 4.3.  The same holds for the handler that receives a    *)
(* tool call and asks the permission gate, modelled from spec.md 2 and 7,  *)
(* and for ToolRegistry (@core/registry.js), modelled from spec.md 4.9.    *)
(***************************************************************************)
EXTENDS Integers, Sequences, FiniteSets, TLC

VARIABLES
    scenario,       \* which part of the client this behaviour exercises
    clsIn,          \* classifier: the raw AxiosError handed to handleAPIError
    clsOut,         \* classifier: the ProductboardAPIError it returned
    clsPc,          \* classifier: "raw" before, "classified" after
    config,         \* APIClientConfig: retryAttempts, retryDelay (0 = not set)
    authHeaders,    \* what authManager.getAuthHeaders() returns
    budget,         \* RateLimiter: calls allowed per window for key 'global'
    used,           \* RateLimiter: slots handed out in the current window
    wire,           \* requests that went out in the current window
    pc,             \* per logical call: where it is
    via,            \* per logical call: the entry point it came through
    verb,           \* per logical call: the HTTP verb
    callerHeaders,  \* per logical call: config.headers given by the caller
    sentHeaders,    \* per logical call: headers of the latest attempt
    attempts,       \* per logical call: attempts started by withRetries
    slots,          \* per logical call: slots acquired
    sent,           \* per logical call: requests put on the wire
    hist,           \* per logical call: outcome kind of each finished attempt
    lastRaw,        \* per logical call: the raw failure of the latest attempt
    lastBody,       \* per logical call: the body of the latest 2xx response
    waits,          \* per logical call: the backoff delays waited so far
    thrown,         \* per logical call: the error the caller received
    result,         \* per logical call: the value the caller received
    upstream,       \* getAllPages: how the service pages its list
    pgParams,       \* getAllPages: the caller's params
    pgPc,           \* getAllPages: where the loop is
    allData,        \* getAllPages: allData
    pgCursor,       \* getAllPages: cursor (0 = undefined)
    pgHasMore,      \* getAllPages: hasMore
    pgReq,          \* getAllPages: paginatedParams of the current iteration
    pgRequests,     \* getAllPages: the params of every get issued, in order
    pgServed,       \* getAllPages: the pages received, in order
    pgSent,         \* getAllPages: requests put on the wire by finished gets
    pgRetried,      \* getAllPages: some attempt of some get failed
    pgError,        \* getAllPages: the error it rejected with
    logged,         \* per logical call: headers of the latest 'API Request' event
    batchOps,       \* batch: the operations given, in order
    batchPc,        \* batch: where the for loop is
    batchIdx,       \* batch: operations taken from the list so far
    batchResults,   \* batch: results
    batchTrace,     \* batch: what each operation taken did, in order
    tool,           \* tool call: the tool (name and permission metadata)
    caller,         \* tool call: the caller's UserPermissions
    toolParams,     \* tool call: the params given
    toolPc,         \* tool call: where the call is
    admitted,       \* tool call: what isAvailableForUser returned
    missing,        \* tool call: what getMissingPermissions returned
    toolReqs,       \* tool call: requests handed to the API client, in order
    toolPending,    \* tool call: the requests the logic has still to make
    toolFault,      \* tool call: what the logic threw
    toolOut,        \* tool call: what the call resolved or rejected with
    registry,       \* registry: the tools registered, in registration order
    regPolicy,      \* registry: what register does with a duplicate name
    regDone,        \* registry: the registrations asked for, in order
    regPc,          \* registry: "open" while tools are registered
    resolved,       \* registry: what the latest resolve returned
    lfHeld,         \* list-features: matching features the service holds
    lfParams,       \* list-features: the offset and limit of the call
    lfPc,           \* list-features: where the call is
    lfQuery,        \* list-features: the query params of the request
    lfShown         \* list-features: the features the result shows

clsVars == <<clsIn, clsOut, clsPc>>

clientVars == <<config, authHeaders, budget>>

limiterVars == <<used, wire>>

callVars == <<pc, via, verb, callerHeaders, sentHeaders, attempts, slots, sent,
              hist, lastRaw, lastBody, waits, thrown, result>>

pgVars == <<upstream, pgParams, pgPc, allData, pgCursor, pgHasMore, pgReq,
            pgRequests, pgServed, pgSent, pgRetried, pgError>>

batchVars == <<batchOps, batchPc, batchIdx, batchResults, batchTrace>>

toolVars == <<tool, caller, toolParams, toolPc, admitted, missing, toolReqs,
              toolPending, toolFault, toolOut>>

regVars == <<registry, regPolicy, regDone, regPc, resolved>>

lfVars == <<lfHeld, lfParams, lfPc, lfQuery, lfShown>>

\* The registry and the feature list, apart from the client.
restVars == <<regVars, lfVars>>

\* What belongs to the callers of the dispatcher and to the classifier.
otherVars == <<clsVars, pgVars, batchVars, toolVars, restVars>>

\* What the dispatcher's own steps leave alone.
asideVars == <<otherVars, logged>>

vars == <<scenario, clsVars, clientVars, limiterVars, callVars, pgVars, logged,
          batchVars, toolVars, restVars>>

(***************************************************************************)
(* JavaScript values                                                       *)
(***************************************************************************)

\* A JS value: undefined, a string, or a non-string object.
Undef == [t |-> "undef", v |-> ""]

Str(s) == [t |-> "str", v |-> s]

Obj(o) == [t |-> "obj", v |-> o]

\* The result of JSON.stringify on a non-string value.
Json(o) == [t |-> "json", v |-> o]

\* JS truthiness: undefined and the empty string are falsy.
Truthy(x) == ~(x.t = "undef" \/ (x.t = "str" /\ x.v = ""))

\* String(x)
ToStringJS(x) ==
    CASE x.t = "str" -> x
      [] x.t = "obj" -> Str("[object Object]")
      [] x.t = "undef" -> Str("undefined")
      [] OTHER -> x

\* typeof x === 'string' ? x : JSON.stringify(x)
StringOrJson(x) == IF x.t = "str" THEN x ELSE Json(x.v)

\* A number or NaN.
Num(n) == [nan |-> FALSE, n |-> n]

NaN == [nan |-> TRUE, n |-> 0]

\* The field is not part of this error class.
NoNum == [nan |-> FALSE, n |-> -1]

Digits == <<"0", "1", "2", "3", "4", "5", "6", "7", "8", "9">>

IsDigit(c) == \E i \in 1..10 : Digits[i] = c

DigitVal(c) == (CHOOSE i \in 1..10 : Digits[i] = c) - 1

IsSpace(c) == c = " "

\* Index of the first character that is not white space (Len+1 if none).
RECURSIVE SkipSpaces(_, _)
SkipSpaces(s, i) ==
    IF i > Len(s) \/ ~IsSpace(s[i]) THEN i ELSE SkipSpaces(s, i + 1)

\* Value of the longest run of decimal digits of s starting at i, given the
\* value acc of the digits read so far; -1 when there is no digit at i.
RECURSIVE ReadDigits(_, _, _, _)
ReadDigits(s, i, acc, any) ==
    IF i <= Len(s) /\ IsDigit(s[i])
    THEN ReadDigits(s, i + 1, acc * 10 + DigitVal(s[i]), TRUE)
    ELSE IF any THEN acc ELSE -1

\* parseInt(s) with no radix, for a string s given as its characters:
\* leading white space is skipped, a sign is read, then the longest prefix of
\* decimal digits; anything after it is ignored; NaN when there is no digit.
ParseInt(s) ==
    LET i == SkipSpaces(s, 1)
        signed == i <= Len(s) /\ s[i] \in {"-", "+"}
        neg == signed /\ s[i] = "-"
        j == IF signed THEN i + 1 ELSE i
        n == ReadDigits(s, j, 0, FALSE)
    IN  IF n = -1 THEN NaN ELSE Num(IF neg THEN 0 - n ELSE n)

(***************************************************************************)
(* Raw failures                                                            *)
(***************************************************************************)

\* A header that the response does not carry.
NoHeader == [present |-> FALSE, chars |-> <<>>]

Header(cs) == [present |-> TRUE, chars |-> cs]

\* response.data of an error response: undefined (no body), or an object
\* with optional message / error / errors / resource fields.
NoData == [present |-> FALSE, message |-> Undef, error |-> Undef,
           errors |-> Undef, resource |-> Undef]

Data(m, e, es, r) == [present |-> TRUE, message |-> m, error |-> e,
                      errors |-> es, resource |-> r]

\* An AxiosError: with a response (status, body, retry-after header) or
\* without one (network failure, or the attempt's timeout: code says which).
RawResponse(s, d, h, msg) ==
    [hasResponse |-> TRUE, status |-> s, data |-> d, retryAfter |-> h,
     message |-> msg, code |-> "ERR_BAD_RESPONSE"]

RawNoResponse(code, msg) ==
    [hasResponse |-> FALSE, status |-> 0, data |-> NoData,
     retryAfter |-> NoHeader, message |-> msg, code |-> code]

(***************************************************************************)
(* Error classifier: ProductboardAPIClient.handleAPIError                  *)
(***************************************************************************)

DefaultRetryAfter == <<"6", "0">>

\* A classified error: the class (kind) and what its constructor is given.
APIError(kind, status, message, data, retryAfter, resource) ==
    [kind |-> kind, status |-> status, message |-> message, data |-> data,
     retryAfter |-> retryAfter, resource |-> resource,
     code |-> IF kind = "Generic" THEN "API_ERROR" ELSE ""]

\* Mutant: the body's error field is looked at before its message field.
ExtractMessageErrorFirst(error) ==
    LET data == error.data
    IN  IF ~data.present THEN Str(error.message)
        ELSE IF Truthy(data.error) THEN StringOrJson(data.error)
        ELSE IF Truthy(data.message) THEN ToStringJS(data.message)
        ELSE IF Truthy(data.errors) THEN StringOrJson(data.errors)
        ELSE Str(error.message)

\* client.ts 126-135: the most descriptive message.
ExtractMessage(error) ==
    LET data == error.data
    IN  IF ~data.present THEN Str(error.message)
        ELSE IF Truthy(data.message) THEN ToStringJS(data.message)
        ELSE IF Truthy(data.error) THEN StringOrJson(data.error)
        ELSE IF Truthy(data.errors) THEN StringOrJson(data.errors)
        ELSE Str(error.message)

\* client.ts 147: parseInt(headers['retry-after'] || '60')
ParseRetryAfter(h) ==
    ParseInt(IF h.present /\ h.chars # <<>> THEN h.chars ELSE DefaultRetryAfter)

\* client.ts 150: the default branch's test for a server error.
IsServerStatus(status) == status >= 500

\* client.ts 121-161
handleAPIError(error) ==
    LET status == IF error.hasResponse THEN error.status ELSE 0
        data == IF error.hasResponse THEN error.data ELSE NoData
        message == ToStringJS(ExtractMessage([error EXCEPT !.data = data]))
    IN  CASE status = 400 ->
               APIError("Validation", 400, message, data, NoNum, Undef)
          [] status = 401 ->
               APIError("Authentication", 401, message, NoData, NoNum, Undef)
          [] status = 403 ->
               APIError("Authorization", 403, message, NoData, NoNum, Undef)
          [] status = 404 ->
               APIError("NotFound", 404, message, NoData, NoNum, data.resource)
          [] status = 429 ->
               APIError("RateLimited", 429, message, NoData,
                        ParseRetryAfter(error.retryAfter), Undef)
          [] OTHER ->
               IF IsServerStatus(status)
               THEN APIError("ServerError", status, message, NoData, NoNum, Undef)
               ELSE APIError("Generic", status, message, data, NoNum, Undef)

\* No error yet.
NoError == APIError("none", 0, Undef, NoData, NoNum, Undef)

(***************************************************************************)
(* Inputs of the classifier                                                *)
(***************************************************************************)

\* Statuses an error response can carry: validateStatus (client.ts 56)
\* accepts 200..299, every other status reaches the error interceptor.
StatusSamples ==
    {100, 199, 300, 302, 399, 400, 401, 402, 403, 404, 405, 418, 428, 429,
     430, 499, 500, 501, 503, 599, 600, 601, 999}

FieldSamples == {Undef, Str(""), Str("m"), Obj("o")}

DataSamples ==
    {NoData} \cup
    {Data(m, e, es, r) : m \in FieldSamples, e \in {Undef, Str("e"), Obj("o")},
                         es \in {Undef, Obj("o")}, r \in {Undef, Str("feature")}}

RetryAfterSamples ==
    {NoHeader, Header(<<>>), Header(<<"3", "0">>), Header(<<"0">>),
     Header(<<"1", "2", "0">>), Header(<<"a", "b", "c">>),
     Header(<<"W", "e", "d", ",", " ", "2", "1">>),
     Header(<<"1", "2", "x">>), Header(<<" ", "7">>), Header(<<"-", "5">>),
     Header(<<"1", ".", "5">>)}

ErrorResponses ==
    {RawResponse(s, d, h, "Request failed") :
        s \in StatusSamples, d \in DataSamples, h \in RetryAfterSamples}

(***************************************************************************)
(* The client: constructor (client.ts 34-60)                               *)
(***************************************************************************)

DefaultRetryAttempts == 3

DefaultRetryDelay == 1000

\* Mutant: retryAttempts read as the number of retries after the first attempt.
maxAttemptsAsRetries ==
    (IF config.retryAttempts = 0 THEN DefaultRetryAttempts ELSE config.retryAttempts) + 1

\* client.ts 46: maxAttempts: config.retryAttempts || 3
maxAttempts ==
    IF config.retryAttempts = 0 THEN DefaultRetryAttempts ELSE config.retryAttempts

\* Mutant: retryDelay is passed on without the default.
initialDelayNoDefault == config.retryDelay

\* client.ts 48: initialDelay: config.retryDelay || 1000
initialDelay ==
    IF config.retryDelay = 0 THEN DefaultRetryDelay ELSE config.retryDelay

\* client.ts 49
maxDelay == 30000

\* ./errors.js isRetryableError, from spec.md 4.3: the retryable kinds.
isRetryableError(e) == e.kind \in {"NetworkFailure", "ServerError", "RateLimited"}

\* Mutant: no retryCondition given, every failure is retried.
retryConditionOmitted(e) == TRUE

\* client.ts 50: retryCondition: isRetryableError
retryCondition(e) == isRetryableError(e)

(***************************************************************************)
(* RetryHandler.withRetries, from spec.md 4.3                              *)
(***************************************************************************)

RECURSIVE Pow2(_)
Pow2(k) == IF k <= 0 THEN 1 ELSE 2 * Pow2(k - 1)

Min(a, b) == IF a <= b THEN a ELSE b

\* The wait between attempt k and attempt k + 1 (backoffStrategy 'exponential').
BackoffDelay(k) == Min(initialDelay * Pow2(k - 1), maxDelay)

\* After a failed attempt: retry only if the predicate holds and attempts remain.
ShouldRetry(e, attemptsSoFar) == retryCondition(e) /\ attemptsSoFar < maxAttempts

(***************************************************************************)
(* RateLimiter, from spec.md 4.2 and 5: one counter per window, tested and *)
(* incremented in one step                                                 *)
(***************************************************************************)

SlotFree == used < budget

(***************************************************************************)
(* Requests                                                                *)
(***************************************************************************)

\* Header names are the keys of plain objects: "authorization" and
\* "Authorization" are two keys.
HeaderNames == {"Authorization", "authorization", "X-Version", "X-Custom"}

NoHeaders == [n \in HeaderNames |-> Undef]

\* The credential the Authentication Provider holds.
Credential == Str("Bearer token")

AuthHeaderSamples ==
    {NoHeaders,
     [NoHeaders EXCEPT !["Authorization"] = Credential,
                       !["X-Version"] = Str("1")],
     [NoHeaders EXCEPT !["authorization"] = Credential]}

CallerHeaderSamples ==
    {NoHeaders,
     [NoHeaders EXCEPT !["X-Custom"] = Str("c")],
     [NoHeaders EXCEPT !["Authorization"] = Str("Bearer caller"),
                       !["X-Custom"] = Str("c")]}

\* Mutant: the spreads in the other order, { ...authHeaders, ...config.headers }.
MergeHeadersCallerLast(configHeaders, auth) ==
    [n \in HeaderNames |-> IF configHeaders[n] # Undef THEN configHeaders[n] ELSE auth[n]]

\* client.ts 66: config.headers = { ...config.headers, ...authHeaders }
MergeHeaders(configHeaders, auth) ==
    [n \in HeaderNames |-> IF auth[n] # Undef THEN auth[n] ELSE configHeaders[n]]

\* The value the logger shows in place of the Authorization header.
Redacted == Str("[REDACTED]")

\* client.ts 74-80: the headers of the 'API Request' event: every header of
\* the request, then X-Version as it is and Authorization redacted.
LogHeaders(headers) ==
    [n \in HeaderNames |->
        IF n = "Authorization"
        THEN (IF Truthy(headers[n]) THEN Redacted ELSE Undef)
        ELSE headers[n]]

Verbs == {"GET", "POST", "PUT", "PATCH", "DELETE"}

\* A method makeRequest's switch has no case for.
Methods == Verbs \cup {"HEAD"}

\* Mutant: the wrapper returns the response, not response.data.
WrapperResultResponse(v, body) == IF v = "DELETE" THEN Undef ELSE Obj("response")

\* What the verb's wrapper returns for a 2xx response: response.data, and
\* nothing for delete (client.ts 163-198).
WrapperResult(v, body) == IF v = "DELETE" THEN Undef ELSE body

\* client.ts 284-286: makeRequest's DELETE returns a success marker.
SuccessMarker == Obj("{success:true}")

MakeRequestResult(v, wrapped) == IF v = "DELETE" THEN SuccessMarker ELSE wrapped

\* client.ts 288
UnsupportedMethod ==
    [APIError("Error", 0, Str("Unsupported HTTP method"), NoData, NoNum, Undef)
        EXCEPT !.code = "UNSUPPORTED"]

\* The AxiosError the response interceptor rethrows when there is no response
\* (client.ts 112-116): the raw error, unclassified.
RawThrown(raw) ==
    [APIError("NetworkFailure", 0, Str(raw.message), NoData, NoNum, Undef)
        EXCEPT !.code = raw.code]

\* Mutant: the interceptor rethrows the AxiosError (throw error) in both branches.
responseErrorInterceptorRethrows(raw) == RawThrown(raw)

\* Mutant: the interceptor classifies without testing error.response.
responseErrorInterceptorNoTest(raw) == handleAPIError(raw)

\* client.ts 99-117: the response interceptor's error branch.
responseErrorInterceptor(raw) ==
    IF raw.hasResponse THEN handleAPIError(raw) ELSE RawThrown(raw)

(***************************************************************************)
(* What the upstream service answers                                       *)
(***************************************************************************)

Bodies == {Obj("body1"), Obj("body2")}

DispatchErrorResponses ==
    {RawResponse(400, Data(Str("m"), Undef, Obj("o"), Undef), NoHeader, "Request failed"),
     RawResponse(401, NoData, NoHeader, "Request failed"),
     RawResponse(404, Data(Undef, Str("e"), Undef, Str("feature")), NoHeader, "Request failed"),
     RawResponse(429, NoData, Header(<<"3", "0">>), "Request failed"),
     RawResponse(503, Data(Undef, Undef, Undef, Undef), NoHeader, "Request failed"),
     RawResponse(302, NoData, NoHeader, "Request failed")}

RateErrorResponses ==
    {RawResponse(400, NoData, NoHeader, "Request failed"),
     RawResponse(503, NoData, NoHeader, "Request failed")}

\* What the service answers the operations of a batch with: a failure that
\* is not retried (Generic) and one that is.
BatchErrorResponses ==
    {RawResponse(302, NoData, NoHeader, "Request failed"),
     RawResponse(503, NoData, NoHeader, "Unavailable")}

ErrorResponsesOf(sc) ==
    CASE sc = "dispatch" -> DispatchErrorResponses
      [] sc = "batch" -> BatchErrorResponses
      [] OTHER -> RateErrorResponses

\* No response at all: the connection failed, or the attempt's timeout
\* (client.ts 55) expired.
NoResponses ==
    {RawNoResponse("ERR_NETWORK", "Network Error"),
     RawNoResponse("ECONNABORTED", "timeout exceeded")}

NoRaw == RawNoResponse("", "")

(***************************************************************************)
(* Pages                                                                   *)
(***************************************************************************)

\* PaginatedResponse: data and pagination {cursor?, hasMore, (offset)?};
\* cursor 0 stands for no cursor, offset -1 for no offset.
Page(items, more, cur, off) ==
    [items |-> items, hasMore |-> more, cursor |-> cur, offset |-> off]

\* Query params of one page request; filter stands for every other param.
Params(lim, cur, off, f) ==
    [limit |-> lim, cursor |-> cur, offset |-> off, filter |-> f]

NoParams == Params(0, 0, -1, Undef)

\* Items start+1 .. start+n of a list of `total` items (items are 1..total).
Slice(total, start, n) ==
    [i \in 1..(IF start >= total THEN 0 ELSE Min(n, total - start)) |-> start + i]

\* The service's answer to the nth page request `req`:
\*   "cursor"   pages by the request's cursor and hands out the next cursor;
\*   "offset"   pages by the request's offset, without cursors;
\*   "scripted" serves its pages of `size` items one after the other, without
\*              cursors, whatever the request (a mocked service);
\*   "endless"  reports hasMore on every page.
Serve(up, req, nth) ==
    CASE up.mode = "cursor" ->
            LET start == req.cursor
                stop == start + req.limit
            IN  Page(Slice(up.total, start, req.limit), stop < up.total,
                     IF stop < up.total THEN stop ELSE 0, -1)
      [] up.mode = "offset" ->
            LET start == IF req.offset < 0 THEN 0 ELSE req.offset
                stop == start + req.limit
            IN  Page(Slice(up.total, start, req.limit), stop < up.total, 0, start)
      [] up.mode = "scripted" ->
            LET start == (nth - 1) * up.size
                stop == start + up.size
            IN  Page(Slice(up.total, start, up.size), stop < up.total, 0, -1)
      [] OTHER ->
            Page(Slice(up.total, 0, req.limit), TRUE, 0, -1)

(***************************************************************************)
(* Permission gate: BaseTool.isAvailableForUser, getMissingPermissions     *)
(* (src/tools/base.ts)                                                     *)
(***************************************************************************)

AccessLevels == {"READ", "WRITE", "DELETE", "ADMIN"}

\* base.ts 135-140: accessLevelOrder
accessLevelOrder(level) ==
    CASE level = "READ" -> 0
      [] level = "WRITE" -> 1
      [] level = "DELETE" -> 2
      [] OTHER -> 3

\* ToolPermissionMetadata: requiredPermissions is an array, in its order.
Metadata(required, level) ==
    [requiredPermissions |-> required, minimumAccessLevel |-> level]

\* UserPermissions: accessLevel and the Set of permissions.
UserPermissions(level, perms) == [accessLevel |-> level, permissions |-> perms]

\* Mutant: only the access level is compared.
isAvailableForUserLevelOnly(meta, user) ==
    accessLevelOrder(user.accessLevel) >= accessLevelOrder(meta.minimumAccessLevel)

\* Mutant: an ADMIN caller is let through whatever its permissions.
isAvailableForUserAdminPasses(meta, user) ==
    \/ user.accessLevel = "ADMIN"
    \/ /\ accessLevelOrder(user.accessLevel) >= accessLevelOrder(meta.minimumAccessLevel)
       /\ \A i \in 1..Len(meta.requiredPermissions) :
             meta.requiredPermissions[i] \in user.permissions

\* base.ts 133-157
isAvailableForUser(meta, user) ==
    IF accessLevelOrder(user.accessLevel) < accessLevelOrder(meta.minimumAccessLevel)
    THEN FALSE
    ELSE \A i \in 1..Len(meta.requiredPermissions) :
            meta.requiredPermissions[i] \in user.permissions

\* Mutant: nothing is reported missing when the access level suffices.
RECURSIVE getMissingPermissionsByLevel(_, _)
getMissingPermissionsByLevel(meta, user) ==
    IF accessLevelOrder(user.accessLevel) > accessLevelOrder(meta.minimumAccessLevel)
       \/ meta.requiredPermissions = <<>>
    THEN <<>>
    ELSE LET required == meta.requiredPermissions
             rest == getMissingPermissionsByLevel(
                         [meta EXCEPT !.requiredPermissions = Tail(required)], user)
         IN  IF Head(required) \in user.permissions
             THEN rest
             ELSE <<Head(required)>> \o rest

\* base.ts 162-172: the loop pushes each required permission the Set lacks.
RECURSIVE getMissingPermissions(_, _)
getMissingPermissions(meta, user) ==
    IF meta.requiredPermissions = <<>> THEN <<>>
    ELSE LET required == meta.requiredPermissions
             rest == getMissingPermissions(
                         [meta EXCEPT !.requiredPermissions = Tail(required)], user)
         IN  IF Head(required) \in user.permissions
             THEN rest
             ELSE <<Head(required)>> \o rest

(***************************************************************************)
(* Tools: BaseTool.execute (src/tools/base.ts) and the tools' logic        *)
(***************************************************************************)

\* A tool: its name and its ToolPermissionMetadata.
Tool(name, required, level) == [name |-> name, meta |-> Metadata(required, level)]

\* list-notes.ts 21-96
ListNotesTool == Tool("pb_note_list", <<"notes:read">>, "READ")

\* attach-note.ts 12-44
AttachNoteTool == Tool("pb_note_attach", <<"notes:write">>, "WRITE")

\* list-features.ts 80-84
ListFeaturesTool == Tool("pb_feature_list", <<"features:read">>, "READ")

\* global-search.ts 11-50
GlobalSearchTool == Tool("pb_search", <<"search">>, "READ")

Tools == {ListNotesTool, AttachNoteTool, ListFeaturesTool, GlobalSearchTool}

\* Query params of a request: a set of <<key, value>> pairs.
NoQuery == {}

\* A request handed to the API client.
Request(method, endpoint, query) ==
    [method |-> method, endpoint |-> endpoint, query |-> query]

\* The params of a tool call: `valid` is the verdict of
\* validator.validateSchema(params || {}, this.parameters) (base.ts 103-105),
\* limit 0 stands for no limit, types <<>> for no types.
ToolParams(valid, limit, types) == [valid |-> valid, limit |-> limit, types |-> types]

NoToolParams == ToolParams(TRUE, 0, <<>>)

\* list-notes.ts 102, list-features.ts 105: Math.min(params.limit || 100, 2000)
PageLimitOf(params) ==
    LET l == IF params.limit = 0 THEN 100 ELSE params.limit
    IN  IF l <= 2000 THEN l ELSE 2000

\* global-search.ts 58: params.types || ['feature', 'note', 'product']
SearchTypes(params) ==
    IF params.types = <<>> THEN <<"feature", "note", "product">> ELSE params.types

Includes(s, x) == \E i \in 1..Len(s) : s[i] = x

\* global-search.ts 64-131: one GET per requested type, features, products,
\* notes in that order, each with params { limit: 100 }.
SearchRequests(params) ==
    LET types == SearchTypes(params)
        one(type, endpoint) ==
            IF Includes(types, type)
            THEN <<Request("GET", endpoint, {<<"limit", 100>>})>>
            ELSE <<>>
    IN  one("feature", "/features") \o one("product", "/products")
            \o one("note", "/notes")

\* The requests a tool's executeInternal hands to the API client, in order.
LogicRequests(t, params) ==
    CASE t.name = "pb_note_list" ->
            \* list-notes.ts 101-125
            <<Request("GET", "/notes", {<<"pageLimit", PageLimitOf(params)>>})>>
      [] t.name = "pb_note_attach" ->
            \* attach-note.ts 55-58
            <<Request("POST", "/notes/{noteId}/links/{entityId}", NoQuery)>>
      [] t.name = "pb_feature_list" ->
            \* list-features.ts 92-113
            <<Request("GET", "/features", {<<"pageLimit", PageLimitOf(params)>>})>>
      [] OTHER -> SearchRequests(params)

\* global-search.ts 66-84, 89-107, 112-130: each request sits in its own
\* try/catch; the other tools let the rejection through.
CatchesRequestErrors(t) == t.name = "pb_search"

\* A value thrown: whether it is an Error instance, and its message.
Thrown(isError, message) == [isError |-> isError, message |-> message]

\* What a tool call ended with.
Outcome(kind, message, toolName, cause, denied) ==
    [kind |-> kind, message |-> message, toolName |-> toolName, cause |-> cause,
     denied |-> denied]

NoThrown == Thrown(FALSE, "")

NoOutcome == Outcome("none", "", "", NoThrown, <<>>)

\* base.ts 39-43: new MCPValidationError(`Invalid parameters for tool ${name}`)
MCPValidationError(t) ==
    Outcome("ValidationError", "Invalid parameters for tool " \o t.name, "",
            NoThrown, <<>>)

\* Mutant: the original error is rethrown as it is.
WrapErrorRethrows(t, e) == Outcome("thrown", e.message, "", e, <<>>)

\* base.ts 49-60: an Error is wrapped in a ToolExecutionError, anything else
\* is rethrown.
WrapError(t, e) ==
    IF e.isError
    THEN Outcome("ToolExecutionError",
                 "Tool " \o t.name \o " execution failed: " \o e.message,
                 t.name, e, <<>>)
    ELSE Outcome("thrown", e.message, "", e, <<>>)

\* base.ts 48, 69-89: the formatted result of executeInternal.
FormattedResult == Outcome("result", "", "", NoThrown, <<>>)

\* The denial the caller gets from the Permission Gate (spec.md 7): the
\* missing permissions, or the access-level shortfall alone.
PermissionDenied(t, user) ==
    Outcome("PermissionDenied", "", t.name, NoThrown,
            getMissingPermissions(t.meta, user))

(***************************************************************************)
(* Operation registry (ToolRegistry, @core/registry.js), from spec.md 4.9  *)
(* and its use in tool-registration.test.ts                                *)
(***************************************************************************)

\* hasTool(name)
HasTool(reg, name) == \E i \in 1..Len(reg) : reg[i].name = name

\* What resolving a name gives: the tool, or the absence signal.
Resolved(name, found, t) == [name |-> name, found |-> found, tool |-> t]

Absent(name) == Resolved(name, FALSE, Tool("", <<>>, "READ"))

NotAsked == Absent("")

\* getTool(name): the tool stored under the name, or the absence signal.
GetTool(reg, name) ==
    IF HasTool(reg, name)
    THEN Resolved(name, TRUE, reg[CHOOSE i \in 1..Len(reg) : reg[i].name = name])
    ELSE Absent(name)

\* Mutant: register stores the tool whatever is stored already.
RegisterAppends(reg, t, policy) == Append(reg, t)

\* registerTool(tool): a new name is stored at the end; a duplicate name is
\* rejected, or the entry under that name is overwritten, per configuration.
Register(reg, t, policy) ==
    IF ~HasTool(reg, t.name) THEN Append(reg, t)
    ELSE IF policy = "overwrite"
         THEN [i \in 1..Len(reg) |-> IF reg[i].name = t.name THEN t ELSE reg[i]]
         ELSE reg

\* size()
Size(reg) == Len(reg)

(***************************************************************************)
(* ListFeaturesTool.executeInternal (list-features.ts 90-191)              *)
(***************************************************************************)

\* The offset and limit of a call; limit 0 stands for no limit.
ListParams(offset, limit) == [offset |-> offset, limit |-> limit]

\* list-features.ts 105-106: queryParams.pageLimit = pageLimit
FeaturesQuery(params) == {<<"pageLimit", PageLimitOf(params)>>}

\* GET /features answered by a service holding `held` matching features,
\* numbered 1..held in their order: one page of at most pageLimit features.
FeaturesPage(held, pageLimit) == Slice(held, 0, pageLimit)

\* list-features.ts 189: params.offset || 0
RequestedOffset(params) == params.offset

\* list-features.ts 190: params.limit || 20
RequestedLimit(params) == IF params.limit = 0 THEN 20 ELSE params.limit

\* Array.prototype.slice(from, to) on a list.
SliceOf(list, from, to) ==
    [i \in 1..(IF from >= Min(to, Len(list)) THEN 0 ELSE Min(to, Len(list)) - from)
        |-> list[from + i]]

\* list-features.ts 191: filteredFeatures.slice(offset, offset + limit)
PaginatedFeatures(features, params) ==
    SliceOf(features, RequestedOffset(params),
            RequestedOffset(params) + RequestedLimit(params))

\* list-features.ts 217-226: the text summary.
Summary(shown) == IF Len(shown) > 0 THEN "Found" ELSE "No features found."

(***************************************************************************)
(* Bounds and configurations                                               *)
(***************************************************************************)

\* Logical calls in flight at once.
NumCalls == 2

\* Largest configured retryAttempts (0 stands for "not set").
MaxRetryAttempts == 3

\* Largest rate budget per window.
MaxBudget == 2

Calls == 1..NumCalls

ConfigSamples ==
    [retryAttempts : 0..MaxRetryAttempts, retryDelay : {0, 100, 20000}]

\* tool-registration.test.ts 301-304: retryAttempts: 2, retryDelay: 100
TestConfig == [retryAttempts |-> 2, retryDelay |-> 100]

\* Items the service holds at most.
MaxItems == 5

\* Largest limit a caller passes to getAllPages.
MaxLimit == 3

\* Page requests after which the model stops following a loop.
MaxPageRequests == 6

Upstreams ==
    [mode : {"cursor", "offset", "endless"}, total : 0..MaxItems, size : {0}]
    \cup [mode : {"scripted"}, total : 0..MaxItems, size : 1..2]

PageParamSamples ==
    {Params(lim, cur, -1, f) : lim \in 0..MaxLimit, cur \in {0, 1}, f \in {Undef, Str("x")}}

\* Sequences over S of at most n elements.
SeqsUpTo(S, n) == UNION {[1..k -> S] : k \in 0..n}

\* Operations in one batch at most.
MaxBatch == 3

\* The methods a BatchOperation names: one with a body to return, the one
\* with a success marker, and one the switch of batch has no case for.
BatchSamples == SeqsUpTo({"GET", "DELETE", "PATCH"}, MaxBatch)

\* Required permissions in a tool's metadata at most.
MaxRequired == 2

PermissionSamples == {"features:read", "features:write", "notes:read"}

MetadataSamples ==
    {Metadata(r, l) : r \in SeqsUpTo(PermissionSamples, MaxRequired), l \in AccessLevels}

UserSamples ==
    {UserPermissions(l, ps) : l \in AccessLevels, ps \in SUBSET PermissionSamples}

\* The callers of the tools: every access level with every set of the
\* permissions the tools require.
ToolUserSamples ==
    {UserPermissions(l, ps) :
        l \in AccessLevels,
        ps \in SUBSET {"notes:read", "notes:write", "features:read", "search"}}

ToolParamSamples ==
    {ToolParams(v, l, ts) :
        v \in BOOLEAN, l \in {0, 50, 3000},
        ts \in {<<>>, <<"feature">>, <<"note", "product">>}}

\* Registrations in one run at most.
MaxRegistrations == 3

\* Tools offered for registration: two names, two tools of each name.
RegToolSamples ==
    {ListNotesTool, GlobalSearchTool,
     Tool("pb_note_list", <<"notes:write">>, "WRITE"),
     Tool("pb_search", <<>>, "ADMIN")}

\* Names asked of the registry: the two above and one never registered
\* (e2e test 'should handle unknown tool calls').
RegNameSamples == {"pb_note_list", "pb_search", "pb_unknown_tool"}

\* What the API client rejects with: Error instances (client.ts 105-116, 288).
FaultSamples == {Thrown(TRUE, "API Error"), Thrown(TRUE, "Network error")}

(***************************************************************************)
(* Initial states                                                          *)
(***************************************************************************)

ClsIdle ==
    /\ clsIn = NoRaw
    /\ clsOut = NoError
    /\ clsPc = "off"

PagesIdle ==
    /\ upstream = [mode |-> "cursor", total |-> 0, size |-> 0]
    /\ pgParams = NoParams
    /\ pgPc = "off"
    /\ allData = <<>>
    /\ pgCursor = 0
    /\ pgHasMore = FALSE
    /\ pgReq = NoParams
    /\ pgRequests = <<>>
    /\ pgServed = <<>>
    /\ pgSent = 0
    /\ pgRetried = FALSE
    /\ pgError = NoError

BatchIdle ==
    /\ batchOps = <<>>
    /\ batchPc = "off"
    /\ batchIdx = 0
    /\ batchResults = <<>>
    /\ batchTrace = <<>>

ToolIdle ==
    /\ tool = ListNotesTool
    /\ caller = UserPermissions("READ", {})
    /\ toolParams = NoToolParams
    /\ toolPc = "off"
    /\ admitted = FALSE
    /\ missing = <<>>
    /\ toolReqs = <<>>
    /\ toolPending = <<>>
    /\ toolFault = NoThrown
    /\ toolOut = NoOutcome

RegIdle ==
    /\ registry = <<>>
    /\ regPolicy = "reject"
    /\ regDone = <<>>
    /\ regPc = "off"
    /\ resolved = NotAsked

LfIdle ==
    /\ lfHeld = 0
    /\ lfParams = ListParams(0, 0)
    /\ lfPc = "off"
    /\ lfQuery = NoQuery
    /\ lfShown = <<>>

CallsIdle ==
    /\ used = 0
    /\ wire = 0
    /\ pc = [p \in Calls |-> "idle"]
    /\ via = [p \in Calls |-> "none"]
    /\ verb = [p \in Calls |-> "GET"]
    /\ callerHeaders = [p \in Calls |-> NoHeaders]
    /\ sentHeaders = [p \in Calls |-> NoHeaders]
    /\ attempts = [p \in Calls |-> 0]
    /\ slots = [p \in Calls |-> 0]
    /\ sent = [p \in Calls |-> 0]
    /\ hist = [p \in Calls |-> <<>>]
    /\ lastRaw = [p \in Calls |-> NoRaw]
    /\ lastBody = [p \in Calls |-> Undef]
    /\ waits = [p \in Calls |-> <<>>]
    /\ thrown = [p \in Calls |-> NoError]
    /\ result = [p \in Calls |-> Undef]
    /\ logged = [p \in Calls |-> NoHeaders]

\* "dispatch": one logical call through makeRequest, every answer possible.
\* "rate": NumCalls logical GETs in flight at once, as product-hierarchy.ts
\* 47-50 issues them, under the integration test's configuration.
Init ==
    /\ scenario \in {"dispatch", "rate"}
    /\ config \in (IF scenario = "rate" THEN {TestConfig} ELSE ConfigSamples)
    /\ authHeaders \in (IF scenario = "rate"
                        THEN {[NoHeaders EXCEPT !["Authorization"] = Str("Bearer token")]}
                        ELSE AuthHeaderSamples)
    /\ budget \in (IF scenario = "rate" THEN 1..MaxBudget ELSE {1})
    /\ ClsIdle
    /\ CallsIdle
    /\ RegIdle
    /\ LfIdle
    /\ PagesIdle
    /\ BatchIdle
    /\ ToolIdle

(***************************************************************************)
(* Entry points                                                            *)
(***************************************************************************)

\* client.ts 267-290: makeRequest({method, endpoint, data, params, headers})
MakeRequest(p, method, headers) ==
    /\ scenario = "dispatch"
    /\ p = 1
    /\ pc[p] = "idle"
    /\ via' = [via EXCEPT ![p] = "makeRequest"]
    /\ IF method \in Verbs
       THEN /\ pc' = [pc EXCEPT ![p] = "attempt"]
            /\ verb' = [verb EXCEPT ![p] = method]
            /\ callerHeaders' = [callerHeaders EXCEPT ![p] = headers]
            /\ UNCHANGED thrown
       ELSE /\ pc' = [pc EXCEPT ![p] = "failed"]
            /\ thrown' = [thrown EXCEPT ![p] = UnsupportedMethod]
            /\ UNCHANGED <<verb, callerHeaders>>
    /\ UNCHANGED <<scenario, asideVars, clientVars, limiterVars, sentHeaders,
                   attempts, slots, sent, hist, lastRaw, lastBody, waits, result>>

\* client.ts 163-171: get(endpoint) called by a tool, no request config.
Get(p) ==
    /\ scenario = "rate"
    /\ pc[p] = "idle"
    /\ via' = [via EXCEPT ![p] = "get"]
    /\ pc' = [pc EXCEPT ![p] = "attempt"]
    /\ UNCHANGED <<scenario, asideVars, clientVars, limiterVars, verb, callerHeaders,
                   sentHeaders, attempts, slots, sent, hist, lastRaw, lastBody,
                   waits, thrown, result>>

(***************************************************************************)
(* One attempt                                                             *)
(***************************************************************************)

\* withRetries calls the wrapped function: this.axios.<verb>(...) starts and
\* the request interceptor runs up to its await (client.ts 64-68).
BeginAttempt(p) ==
    /\ pc[p] = "attempt"
    /\ attempts' = [attempts EXCEPT ![p] = @ + 1]
    /\ sentHeaders' = [sentHeaders EXCEPT ![p] = MergeHeaders(callerHeaders[p], authHeaders)]
    /\ pc' = [pc EXCEPT ![p] = "waitSlot"]
    /\ UNCHANGED <<scenario, asideVars, clientVars, limiterVars, via, verb,
                   callerHeaders, slots, sent, hist, lastRaw, lastBody, waits,
                   thrown, result>>

\* Mutant: the interceptor does not await the rate limiter.
RequestProceedsUnthrottled(p) ==
    /\ pc[p] = "waitSlot"
    /\ wire' = wire + 1
    /\ sent' = [sent EXCEPT ![p] = @ + 1]
    /\ logged' = [logged EXCEPT ![p] = LogHeaders(sentHeaders[p])]
    /\ pc' = [pc EXCEPT ![p] = "inflight"]
    /\ UNCHANGED <<scenario, otherVars, clientVars, used, slots, via, verb,
                   callerHeaders, sentHeaders, attempts, hist, lastRaw, lastBody,
                   waits, thrown, result>>

\* Mutant: only the first attempt of a call awaits the rate limiter.
RequestProceedsRetryUnthrottled(p) ==
    /\ pc[p] = "waitSlot"
    /\ attempts[p] = 1 => SlotFree
    /\ used' = (IF attempts[p] = 1 THEN used + 1 ELSE used)
    /\ slots' = [slots EXCEPT ![p] = IF attempts[p] = 1 THEN @ + 1 ELSE @]
    /\ wire' = wire + 1
    /\ sent' = [sent EXCEPT ![p] = @ + 1]
    /\ logged' = [logged EXCEPT ![p] = LogHeaders(sentHeaders[p])]
    /\ pc' = [pc EXCEPT ![p] = "inflight"]
    /\ UNCHANGED <<scenario, otherVars, clientVars, via, verb, callerHeaders,
                   sentHeaders, attempts, hist, lastRaw, lastBody, waits, thrown,
                   result>>

\* rateLimiter.waitForSlot('global') returns and the interceptor hands the
\* request to the transport (client.ts 68-83).
RequestProceeds(p) ==
    /\ pc[p] = "waitSlot"
    /\ SlotFree
    /\ used' = used + 1
    /\ slots' = [slots EXCEPT ![p] = @ + 1]
    /\ wire' = wire + 1
    /\ sent' = [sent EXCEPT ![p] = @ + 1]
    /\ logged' = [logged EXCEPT ![p] = LogHeaders(sentHeaders[p])]
    /\ pc' = [pc EXCEPT ![p] = "inflight"]
    /\ UNCHANGED <<scenario, otherVars, clientVars, via, verb, callerHeaders,
                   sentHeaders, attempts, hist, lastRaw, lastBody, waits, thrown,
                   result>>

\* A 2xx response: the wrapper returns and withRetries returns its value.
ResponseSuccess(p, body) ==
    /\ pc[p] = "inflight"
    /\ hist' = [hist EXCEPT ![p] = Append(@, "OK")]
    /\ lastBody' = [lastBody EXCEPT ![p] = body]
    /\ result' = [result EXCEPT ![p] =
                    IF via[p] = "makeRequest"
                    THEN MakeRequestResult(verb[p], WrapperResult(verb[p], body))
                    ELSE WrapperResult(verb[p], body)]
    /\ pc' = [pc EXCEPT ![p] = "done"]
    /\ UNCHANGED <<scenario, asideVars, clientVars, limiterVars, via, verb,
                   callerHeaders, sentHeaders, attempts, slots, sent, lastRaw,
                   waits, thrown>>

\* The attempt fails with the raw failure `raw`: the response interceptor
\* throws, the wrapper lets it through, withRetries decides.
AttemptFails(p, raw) ==
    LET e == responseErrorInterceptor(raw)
    IN  /\ pc[p] = "inflight"
        /\ hist' = [hist EXCEPT ![p] = Append(@, e.kind)]
        /\ lastRaw' = [lastRaw EXCEPT ![p] = raw]
        /\ IF ShouldRetry(e, attempts[p])
           THEN /\ pc' = [pc EXCEPT ![p] = "backoff"]
                /\ waits' = [waits EXCEPT ![p] = Append(@, BackoffDelay(attempts[p]))]
                /\ UNCHANGED thrown
           ELSE /\ pc' = [pc EXCEPT ![p] = "failed"]
                /\ thrown' = [thrown EXCEPT ![p] = e]
                /\ UNCHANGED waits
        /\ UNCHANGED <<scenario, asideVars, clientVars, limiterVars, via, verb,
                       callerHeaders, sentHeaders, attempts, slots, sent,
                       lastBody, result>>

\* An error response (a status outside 200..299).
ResponseError(p) ==
    \E raw \in ErrorResponsesOf(scenario) : AttemptFails(p, raw)

\* No response: network failure or timeout.
NoResponse(p) ==
    /\ scenario = "dispatch"
    /\ \E raw \in NoResponses : AttemptFails(p, raw)

\* The backoff delay has passed: withRetries tries again.
BackoffElapsed(p) ==
    /\ pc[p] = "backoff"
    /\ pc' = [pc EXCEPT ![p] = "attempt"]
    /\ UNCHANGED <<scenario, asideVars, clientVars, limiterVars, via, verb,
                   callerHeaders, sentHeaders, attempts, slots, sent, hist,
                   lastRaw, lastBody, waits, thrown, result>>

\* The rate window ends and a new one begins.
WindowRolls ==
    /\ scenario \in {"dispatch", "rate", "pages"}
    /\ used' = 0
    /\ wire' = 0
    /\ UNCHANGED <<scenario, asideVars, clientVars, callVars>>

Next ==
    \/ \E p \in Calls, m \in Methods, h \in CallerHeaderSamples : MakeRequest(p, m, h)
    \/ \E p \in Calls : Get(p)
    \/ \E p \in Calls : BeginAttempt(p)
    \/ \E p \in Calls : RequestProceeds(p)
    \/ \E p \in Calls, b \in Bodies : ResponseSuccess(p, b)
    \/ \E p \in Calls : ResponseError(p)
    \/ \E p \in Calls : NoResponse(p)
    \/ \E p \in Calls : BackoffElapsed(p)
    \/ WindowRolls

Spec == Init /\ [][Next]_vars

(***************************************************************************)
(* Properties of the dispatcher                                            *)
(***************************************************************************)

RetryableKinds == {"NetworkFailure", "ServerError", "RateLimited"}

NonRetryableKinds ==
    {"Validation", "Authentication", "Authorization", "NotFound", "Generic"}

\* N: the attempts the configuration allows (retryAttempts, 3 when not set).
ConfiguredAttempts ==
    IF config.retryAttempts >= 1 THEN config.retryAttempts ELSE 3

AllRetryable(h) == \A i \in 1..Len(h) : h[i] \in RetryableKinds

Last(h) == h[Len(h)]

\* C1: a logical call never makes more than N attempts; when every attempt
\* fails with a retryable kind the error surfaces after exactly N attempts,
\* and not before.
C1_AttemptsBounded ==
    \A p \in Calls :
        /\ attempts[p] <= ConfiguredAttempts
        /\ sent[p] <= attempts[p]
        /\ (pc[p] = "failed" /\ hist[p] # <<>> /\ AllRetryable(hist[p]))
              => (attempts[p] = ConfiguredAttempts /\ Len(hist[p]) = ConfiguredAttempts)
        /\ (AllRetryable(hist[p]) /\ Len(hist[p]) < ConfiguredAttempts)
              => pc[p] # "failed" \/ attempts[p] = 0

C1_Witness ==
    \E p \in Calls :
        /\ config.retryAttempts = 3
        /\ pc[p] = "failed"
        /\ hist[p] = <<"ServerError", "RateLimited", "NetworkFailure">>
        /\ attempts[p] = 3

\* C2: an attempt that fails with a non-retryable kind is the last one: the
\* error surfaces at once, no backoff wait and no further request follow; when
\* it is the first attempt the call makes exactly one attempt.
C2_NonRetryableSurfaces ==
    \A p \in Calls : \A i \in 1..Len(hist[p]) :
        hist[p][i] \in NonRetryableKinds =>
            /\ i = Len(hist[p])
            /\ pc[p] = "failed"
            /\ thrown[p].kind = hist[p][i]
            /\ attempts[p] = i
            /\ sent[p] = i
            /\ Len(waits[p]) = i - 1

C2_Witness ==
    \E p \in Calls :
        /\ pc[p] = "failed"
        /\ hist[p] = <<"Validation">>
        /\ attempts[p] = 1
        /\ sent[p] = 1
        /\ waits[p] = <<>>
        /\ maxAttempts = 3

\* C3: when attempts 1..k-1 fail with retryable kinds and attempt k gets a
\* 2xx response, the call returns that response's body after exactly k
\* attempts (delete resolves with no value, makeRequest's DELETE with the
\* success marker), and nothing is attempted after the success.
C3_ReturnsBodyOfAttemptK ==
    \A p \in Calls :
        pc[p] = "done" =>
            LET k == Len(hist[p])
            IN  /\ k >= 1
                /\ hist[p][k] = "OK"
                /\ \A i \in 1..(k - 1) : hist[p][i] \in RetryableKinds
                /\ attempts[p] = k
                /\ sent[p] = k
                /\ Len(waits[p]) = k - 1
                /\ k <= ConfiguredAttempts
                /\ verb[p] # "DELETE" => result[p] = lastBody[p]
                /\ verb[p] = "DELETE" =>
                      result[p] = (IF via[p] = "makeRequest" THEN SuccessMarker ELSE Undef)

C3_Witness ==
    \E p \in Calls :
        /\ pc[p] = "done"
        /\ verb[p] = "POST"
        /\ hist[p] = <<"ServerError", "ServerError", "OK">>
        /\ attempts[p] = 3
        /\ result[p] = Obj("body1")

\* C4: the error the caller gets is the failure of the last attempt, with
\* that response's status, kind and payload, and never a synthetic error.
C4_LastFailureSurfaces ==
    \A p \in Calls :
        (pc[p] = "failed" /\ attempts[p] >= 1) =>
            LET raw == lastRaw[p]
                e == thrown[p]
            IN  /\ raw # NoRaw
                /\ e.kind = Last(hist[p])
                /\ e.kind \in RetryableKinds \cup NonRetryableKinds
                /\ raw.hasResponse => e.status = raw.status
                /\ ~raw.hasResponse => (e.kind = "NetworkFailure" /\ e.code = raw.code
                                        /\ e.message = Str(raw.message))
                /\ e.kind \in {"Validation", "Generic"} => e.data = raw.data
                /\ e.kind = "NotFound" => e.resource = raw.data.resource
                /\ e.kind = "RateLimited" => e.retryAfter = ParseRetryAfter(raw.retryAfter)

C4_Witness ==
    \E p \in Calls :
        /\ pc[p] = "failed"
        /\ attempts[p] = 3
        /\ hist[p] = <<"ServerError", "NetworkFailure", "RateLimited">>
        /\ thrown[p].status = 429
        /\ thrown[p].retryAfter = Num(30)

\* C5: within one window at most `budget` requests go out, whatever the
\* interleaving of the calls in flight, and the limiter's count is exactly
\* the number of requests that went out.
C5_BudgetRespected ==
    /\ wire <= budget
    /\ used = wire

C5_Witness ==
    /\ scenario = "rate"
    /\ wire = budget
    /\ \E p, q \in Calls : p # q /\ pc[p] = "inflight" /\ pc[q] = "waitSlot"

OtherCredential == Str("Bearer other")

WithOtherCredential(auth) ==
    [n \in HeaderNames |-> IF auth[n] = Credential THEN OtherCredential ELSE auth[n]]

\* C19: the event logged for a request attempt never contains the
\* credential: a run that differs only in the credential's value, under any
\* header name or letter case that carries it, logs the same event, the
\* authorization header appearing only as '[REDACTED]'.
C19_CredentialNeverLogged ==
    \A p \in Calls : sent[p] >= 1 =>
        /\ logged[p] =
              LogHeaders(MergeHeaders(callerHeaders[p], WithOtherCredential(authHeaders)))
        /\ \A n \in HeaderNames : logged[p][n] # Credential
        /\ Truthy(sentHeaders[p]["Authorization"]) =>
              logged[p]["Authorization"] = Redacted

(***************************************************************************)
(* Pagination aggregator: ProductboardAPIClient.getAllPages                *)
(***************************************************************************)

DefaultPageLimit == 100

\* client.ts 208: const limit = params?.limit || 100
PageLimit(params) == IF params.limit = 0 THEN DefaultPageLimit ELSE params.limit

\* Mutant: a cursor in the caller's params wins over the page's cursor.
PaginatedParamsCallerCursor(params, limit, cursor) ==
    [params EXCEPT !.limit = limit,
                   !.cursor = IF params.cursor # 0 THEN params.cursor ELSE cursor]

\* client.ts 211-215: { ...params, limit, ...(cursor && { cursor }) }
PaginatedParams(params, limit, cursor) ==
    [params EXCEPT !.limit = limit,
                   !.cursor = IF cursor # 0 THEN cursor ELSE params.cursor]

\* Mutant: allData is replaced by the page instead of extended with it.
PushAllReplaces(all, items) == items

\* client.ts 218: allData.push(...response.data)
PushAll(all, items) == all \o items

\* client.ts 224: (response.pagination.offset || 0) + limit
NextOffset(page, limit) == (IF page.offset <= 0 THEN 0 ELSE page.offset) + limit

PagesInit ==
    /\ scenario = "pages"
    /\ config = TestConfig
    /\ authHeaders = [NoHeaders EXCEPT !["Authorization"] = Str("Bearer token")]
    /\ budget = 1
    /\ ClsIdle
    /\ CallsIdle
    /\ RegIdle
    /\ LfIdle
    /\ BatchIdle
    /\ ToolIdle
    /\ upstream \in Upstreams
    /\ pgParams \in PageParamSamples
    /\ pgPc = "idle"
    /\ allData = <<>>
    /\ pgCursor = 0
    /\ pgHasMore = FALSE
    /\ pgReq = NoParams
    /\ pgRequests = <<>>
    /\ pgServed = <<>>
    /\ pgSent = 0
    /\ pgRetried = FALSE
    /\ pgError = NoError

\* client.ts 205-208: getAllPages(endpoint, params) is called.
GetAllPages ==
    /\ scenario = "pages"
    /\ pgPc = "idle"
    /\ allData' = <<>>
    /\ pgCursor' = 0
    /\ pgHasMore' = TRUE
    /\ pgPc' = "loop"
    /\ UNCHANGED <<scenario, restVars, clsVars, logged, batchVars, toolVars,
                   clientVars, limiterVars, callVars, upstream,
                   pgParams, pgReq, pgRequests, pgServed, pgSent, pgRetried, pgError>>

\* client.ts 210-217: the loop builds paginatedParams and calls this.get.
SendPage ==
    /\ scenario = "pages"
    /\ pgPc = "loop"
    /\ pgHasMore
    /\ Len(pgRequests) < MaxPageRequests
    /\ pgReq' = PaginatedParams(pgParams, PageLimit(pgParams), pgCursor)
    /\ pgRequests' = Append(pgRequests, pgReq')
    /\ pgPc' = "await"
    /\ pc' = [pc EXCEPT ![1] = "attempt"]
    /\ via' = [via EXCEPT ![1] = "getAllPages"]
    /\ verb' = [verb EXCEPT ![1] = "GET"]
    /\ attempts' = [attempts EXCEPT ![1] = 0]
    /\ slots' = [slots EXCEPT ![1] = 0]
    /\ sent' = [sent EXCEPT ![1] = 0]
    /\ hist' = [hist EXCEPT ![1] = <<>>]
    /\ lastRaw' = [lastRaw EXCEPT ![1] = NoRaw]
    /\ waits' = [waits EXCEPT ![1] = <<>>]
    /\ UNCHANGED <<scenario, restVars, clsVars, logged, batchVars, toolVars,
                   clientVars, limiterVars, callerHeaders,
                   sentHeaders, lastBody, thrown, result, upstream, pgParams,
                   allData, pgCursor, pgHasMore, pgServed, pgSent, pgRetried,
                   pgError>>

\* The service answers the page request in flight.
PageResponse ==
    /\ scenario = "pages"
    /\ pgPc = "await"
    /\ ResponseSuccess(1, Serve(upstream, pgReq, Len(pgServed) + 1))

\* client.ts 218-227: this.get returned a page.
ReceivePage ==
    LET page == result[1]
        limit == PageLimit(pgParams)
    IN  /\ scenario = "pages"
        /\ pgPc = "await"
        /\ pc[1] = "done"
        /\ allData' = PushAll(allData, page.items)
        /\ pgHasMore' = page.hasMore
        /\ pgCursor' = page.cursor
        /\ pgReq' = IF page.cursor = 0 /\ page.hasMore
                    THEN [pgReq EXCEPT !.offset = NextOffset(page, limit)]
                    ELSE pgReq
        /\ pgServed' = Append(pgServed, page)
        /\ pgSent' = pgSent + sent[1]
        /\ pgRetried' = (pgRetried \/ attempts[1] > 1)
        /\ pgPc' = IF page.hasMore THEN "loop" ELSE "done"
        /\ pc' = [pc EXCEPT ![1] = "idle"]
        /\ UNCHANGED <<scenario, restVars, clsVars, logged, batchVars, toolVars,
                       clientVars, limiterVars, via, verb,
                       callerHeaders, sentHeaders, attempts, slots, sent, hist,
                       lastRaw, lastBody, waits, thrown, result, upstream,
                       pgParams, pgRequests, pgError>>

\* this.get rejected: nothing catches it, getAllPages rejects with it.
PageFails ==
    /\ scenario = "pages"
    /\ pgPc = "await"
    /\ pc[1] = "failed"
    /\ pgError' = thrown[1]
    /\ pgSent' = pgSent + sent[1]
    /\ pgRetried' = TRUE
    /\ pgPc' = "failed"
    /\ pc' = [pc EXCEPT ![1] = "idle"]
    /\ UNCHANGED <<scenario, restVars, clsVars, logged, batchVars, toolVars,
                   clientVars, limiterVars, via, verb,
                   callerHeaders, sentHeaders, attempts, slots, sent, hist,
                   lastRaw, lastBody, waits, thrown, result, upstream, pgParams,
                   allData, pgCursor, pgHasMore, pgReq, pgRequests, pgServed>>

PagesNext ==
    \/ GetAllPages
    \/ SendPage
    \/ BeginAttempt(1)
    \/ RequestProceeds(1)
    \/ PageResponse
    \/ ResponseError(1)
    \/ BackoffElapsed(1)
    \/ WindowRolls
    \/ ReceivePage
    \/ PageFails

SpecPages == PagesInit /\ [][PagesNext]_vars

(***************************************************************************)
(* Properties of the pagination aggregator                                 *)
(***************************************************************************)

RECURSIVE ConcatItems(_)
ConcatItems(pages) ==
    IF pages = <<>> THEN <<>>
    ELSE ConcatItems(SubSeq(pages, 1, Len(pages) - 1)) \o Last(pages).items

\* The items a complete walk of the service's list yields, in order.
ExpectedItems ==
    Slice(upstream.total,
          IF upstream.mode = "cursor" THEN pgParams.cursor ELSE 0,
          upstream.total)

\* C10: when the service has served pages 1..k, hasMore true on all but the
\* last, getAllPages has issued exactly k gets (k requests on the wire when
\* no attempt had to be retried) and returns the k pages' items in arrival
\* order, none dropped or duplicated.
C10_CollectsAllPages ==
    pgPc = "done" =>
        LET k == Len(pgServed)
        IN  /\ k >= 1
            /\ Len(pgRequests) = k
            /\ \A i \in 1..(k - 1) : pgServed[i].hasMore
            /\ ~pgServed[k].hasMore
            /\ allData = ConcatItems(pgServed)
            /\ allData = ExpectedItems
            /\ pgSent >= k
            /\ ~pgRetried => pgSent = k

C10_Witness ==
    /\ pgPc = "done"
    /\ Len(pgServed) = 3
    /\ Len(pgServed[1].items) = 2
    /\ Len(pgServed[2].items) = 2
    /\ Len(pgServed[3].items) = 1
    /\ allData = <<1, 2, 3, 4, 5>>
    /\ Len(pgRequests) = 3
    /\ pgSent = 3

\* client.ts 210: the loop's only exit test is `while (hasMore)`.
LoopContinues == pgPc = "loop" /\ pgHasMore

\* C11: getAllPages terminates after a bounded number of page requests
\* against every upstream, one that reports hasMore on every page included:
\* a hard iteration ceiling stops the loop.  Stated for the ceiling
\* MaxPageRequests: once that many page requests have been issued the loop
\* does not go on to another one.  The loop keeps no count of its
\* iterations, so the same state is reached for every value of the ceiling.
C11_CeilingStopsLoop ==
    Len(pgRequests) >= MaxPageRequests => ~LoopContinues

\* C24: when page i reports hasMore = true without a cursor, request i+1
\* includes an offset equal to the previous offset plus the page size, so
\* request i+1 is not identical to request i.
C24_OffsetAdvances ==
    \A i \in 1..(Len(pgRequests) - 1) :
        (pgServed[i].hasMore /\ pgServed[i].cursor = 0) =>
            /\ pgRequests[i + 1].offset = NextOffset(pgServed[i], PageLimit(pgParams))
            /\ pgRequests[i + 1] # pgRequests[i]

\* C25: when page i supplies a cursor, request i+1 carries exactly that
\* cursor, replacing any cursor used before, the one the caller passed in
\* params included, while every other caller parameter is sent unchanged on
\* every page request.
C25_CursorPropagates ==
    \A i \in 1..Len(pgRequests) :
        /\ pgRequests[i].filter = pgParams.filter
        /\ pgRequests[i].offset = pgParams.offset
        /\ pgParams.limit # 0 => pgRequests[i].limit = pgParams.limit
        /\ i = 1 => pgRequests[i].cursor = pgParams.cursor
        /\ (i > 1 /\ pgServed[i - 1].cursor # 0) =>
              pgRequests[i].cursor = pgServed[i - 1].cursor

\* The caller passed cursor 1 and a filter; page 1 supplied cursor 3.
C25_Witness ==
    /\ Len(pgRequests) >= 2
    /\ pgParams.cursor = 1
    /\ pgParams.filter = Str("x")
    /\ pgParams.limit = 2
    /\ pgRequests[1].cursor = 1
    /\ pgServed[1].cursor = 3
    /\ pgRequests[2] = Params(2, 3, -1, Str("x"))

(***************************************************************************)
(* Batch executor: ProductboardAPIClient.batch                             *)
(***************************************************************************)

\* BatchResult: { success, data?, error? }
BatchResult(success, data, message) ==
    [success |-> success, data |-> data, error |-> message]

\* client.ts 240-253: the methods the switch has a case for.
BatchCases == {"GET", "POST", "PUT", "DELETE"}

\* client.ts 251-252: delete's data is the success marker, the other verbs'
\* data is what the wrapper returned.
BatchData(method, returned) == IF method = "DELETE" THEN SuccessMarker ELSE returned

\* Every value the verbs reject with is an Error: a ProductboardAPIError or
\* the AxiosError itself.
IsErrorInstance(e) == e.kind # "none"

\* client.ts 259: error instanceof Error ? error.message : 'Unknown error'
BatchErrorMessage(e) == IF IsErrorInstance(e) THEN e.message ELSE Str("Unknown error")

\* Mutant: the newest result is put first.
BatchPushFront(results, r) == <<r>> \o results

\* client.ts 255, 257: results.push(...)
BatchPush(results, r) == Append(results, r)

\* What one operation of the batch did: its method, the requests it put on
\* the wire, how its verb ended, and the body or the error it ended with.
Did(method, requests, outcome, body, e) ==
    [method |-> method, requests |-> requests, outcome |-> outcome,
     body |-> body, kind |-> e.kind, error |-> e.message]

BatchInit ==
    /\ scenario = "batch"
    /\ config = TestConfig
    /\ authHeaders = [NoHeaders EXCEPT !["Authorization"] = Credential]
    /\ budget = MaxBatch * TestConfig.retryAttempts
    /\ ClsIdle
    /\ CallsIdle
    /\ RegIdle
    /\ LfIdle
    /\ PagesIdle
    /\ ToolIdle
    /\ batchOps \in BatchSamples
    /\ batchPc = "idle"
    /\ batchIdx = 0
    /\ batchResults = <<>>
    /\ batchTrace = <<>>

\* client.ts 232-233: batch(operations) is called; the rate window has room
\* for every attempt of the batch.
Batch ==
    /\ scenario = "batch"
    /\ batchPc = "idle"
    /\ batchResults' = <<>>
    /\ batchPc' = "loop"
    /\ UNCHANGED <<scenario, restVars, clsVars, pgVars, toolVars, logged, clientVars,
                   limiterVars, callVars, batchOps, batchIdx, batchTrace>>

\* Mutant: the loop does not await the verb of the operation it started
\* before it takes the next one.
BatchTakeNoAwait ==
    LET method == batchOps[batchIdx + 1]
    IN  /\ scenario = "batch"
        /\ batchPc \in {"loop", "await"}
        /\ batchIdx < Len(batchOps)
        /\ batchIdx' = batchIdx + 1
        /\ method \in BatchCases
        /\ batchPc' = "await"
        /\ pc' = [pc EXCEPT ![1] = "attempt"]
        /\ via' = [via EXCEPT ![1] = "batch"]
        /\ verb' = [verb EXCEPT ![1] = method]
        /\ attempts' = [attempts EXCEPT ![1] = 0]
        /\ slots' = [slots EXCEPT ![1] = 0]
        /\ sent' = [sent EXCEPT ![1] = 0]
        /\ hist' = [hist EXCEPT ![1] = <<>>]
        /\ lastRaw' = [lastRaw EXCEPT ![1] = NoRaw]
        /\ waits' = [waits EXCEPT ![1] = <<>>]
        /\ UNCHANGED <<batchResults, batchTrace>>
        /\ UNCHANGED <<scenario, restVars, clsVars, pgVars, toolVars, logged,
                       clientVars, limiterVars, callerHeaders, sentHeaders,
                       lastBody, thrown, result, batchOps>>

\* client.ts 235-255: the loop takes the next operation and the switch calls
\* its verb; a method the switch has no case for falls through to the push.
BatchTake ==
    LET method == batchOps[batchIdx + 1]
    IN  /\ scenario = "batch"
        /\ batchPc = "loop"
        /\ batchIdx < Len(batchOps)
        /\ batchIdx' = batchIdx + 1
        /\ IF method \in BatchCases
           THEN /\ batchPc' = "await"
                /\ pc' = [pc EXCEPT ![1] = "attempt"]
                /\ via' = [via EXCEPT ![1] = "batch"]
                /\ verb' = [verb EXCEPT ![1] = method]
                /\ attempts' = [attempts EXCEPT ![1] = 0]
                /\ slots' = [slots EXCEPT ![1] = 0]
                /\ sent' = [sent EXCEPT ![1] = 0]
                /\ hist' = [hist EXCEPT ![1] = <<>>]
                /\ lastRaw' = [lastRaw EXCEPT ![1] = NoRaw]
                /\ waits' = [waits EXCEPT ![1] = <<>>]
                /\ UNCHANGED <<batchResults, batchTrace>>
           ELSE /\ batchPc' = "loop"
                /\ batchResults' = BatchPush(batchResults,
                                             BatchResult(TRUE, Undef, Undef))
                /\ batchTrace' = Append(batchTrace,
                                        Did(method, 0, "none", Undef, NoError))
                /\ UNCHANGED <<pc, via, verb, attempts, slots, sent, hist,
                               lastRaw, waits>>
        /\ UNCHANGED <<scenario, restVars, clsVars, pgVars, toolVars, logged, clientVars,
                       limiterVars, callerHeaders, sentHeaders, lastBody,
                       thrown, result, batchOps>>

\* client.ts 240-255: the verb returned.
BatchOpSucceeds ==
    /\ scenario = "batch"
    /\ batchPc = "await"
    /\ pc[1] = "done"
    /\ batchResults' = BatchPush(batchResults,
                                 BatchResult(TRUE, BatchData(verb[1], result[1]), Undef))
    /\ batchTrace' = Append(batchTrace,
                            Did(verb[1], sent[1], "OK", lastBody[1], NoError))
    /\ batchPc' = "loop"
    /\ pc' = [pc EXCEPT ![1] = "idle"]
    /\ UNCHANGED <<scenario, restVars, clsVars, pgVars, toolVars, logged, clientVars,
                   limiterVars, via, verb, callerHeaders, sentHeaders, attempts,
                   slots, sent, hist, lastRaw, lastBody, waits, thrown, result,
                   batchOps, batchIdx>>

\* Mutant: the failure of an operation is not caught.
BatchOpFailsThrows ==
    /\ scenario = "batch"
    /\ batchPc = "await"
    /\ pc[1] = "failed"
    /\ batchTrace' = Append(batchTrace,
                            Did(verb[1], sent[1], "failed", Undef, thrown[1]))
    /\ batchPc' = "thrown"
    /\ pc' = [pc EXCEPT ![1] = "idle"]
    /\ UNCHANGED <<scenario, restVars, clsVars, pgVars, toolVars, logged, clientVars,
                   limiterVars, via, verb, callerHeaders, sentHeaders, attempts,
                   slots, sent, hist, lastRaw, lastBody, waits, thrown, result,
                   batchOps, batchIdx, batchResults>>

\* client.ts 256-261: the verb rejected, the catch records the failure.
BatchOpFails ==
    /\ scenario = "batch"
    /\ batchPc = "await"
    /\ pc[1] = "failed"
    /\ batchResults' = BatchPush(batchResults,
                                 BatchResult(FALSE, Undef, BatchErrorMessage(thrown[1])))
    /\ batchTrace' = Append(batchTrace,
                            Did(verb[1], sent[1], "failed", Undef, thrown[1]))
    /\ batchPc' = "loop"
    /\ pc' = [pc EXCEPT ![1] = "idle"]
    /\ UNCHANGED <<scenario, restVars, clsVars, pgVars, toolVars, logged, clientVars,
                   limiterVars, via, verb, callerHeaders, sentHeaders, attempts,
                   slots, sent, hist, lastRaw, lastBody, waits, thrown, result,
                   batchOps, batchIdx>>

\* client.ts 264: the loop is over, batch returns results.
BatchReturn ==
    /\ scenario = "batch"
    /\ batchPc = "loop"
    /\ batchIdx = Len(batchOps)
    /\ batchPc' = "returned"
    /\ UNCHANGED <<scenario, restVars, clsVars, pgVars, toolVars, logged, clientVars,
                   limiterVars, callVars, batchOps, batchIdx, batchResults,
                   batchTrace>>

BatchNext ==
    \/ Batch
    \/ BatchTake
    \/ BeginAttempt(1)
    \/ RequestProceeds(1)
    \/ \E b \in Bodies : ResponseSuccess(1, b)
    \/ ResponseError(1)
    \/ BackoffElapsed(1)
    \/ BatchOpSucceeds
    \/ BatchOpFails
    \/ BatchReturn

SpecBatch == BatchInit /\ [][BatchNext]_vars

(***************************************************************************)
(* Properties of the batch executor                                        *)
(***************************************************************************)

\* Result r tells what the operation with this method did.
Describes(r, method, did) ==
    /\ did.method = method
    /\ r.success = (did.outcome # "failed")
    /\ did.outcome = "OK" =>
          /\ r.data = (IF method = "DELETE" THEN SuccessMarker ELSE did.body)
          /\ r.error = Undef
    /\ did.outcome = "failed" =>
          /\ r.data = Undef
          /\ r.error = did.error

\* C12: for every input sequence of operations batch returns exactly one
\* BatchResult per input operation, result i describing operation i,
\* whatever subset of the operations fails.
C12_OneResultPerOperation ==
    /\ Len(batchResults) = Len(batchTrace)
    /\ Len(batchResults) <= Len(batchOps)
    /\ \A i \in 1..Len(batchResults) :
          Describes(batchResults[i], batchOps[i], batchTrace[i])
    /\ batchPc = "returned" => Len(batchResults) = Len(batchOps)

C12_Witness ==
    /\ batchPc = "returned"
    /\ batchOps = <<"GET", "GET", "DELETE">>
    /\ Len(batchResults) = 3
    /\ ~batchResults[1].success
    /\ batchResults[2].success
    /\ ~batchResults[3].success

\* C13: an operation of a batch that fails (after its own retries) is
\* recorded as {success: false, error: message}, every later operation is
\* still executed, and batch itself never throws.
C13_FailureRecordedBatchContinues ==
    /\ batchPc # "thrown"
    /\ \A i \in 1..Len(batchTrace) :
          batchTrace[i].outcome = "failed" =>
              /\ i <= Len(batchResults)
              /\ batchResults[i] = BatchResult(FALSE, Undef, batchTrace[i].error)
              /\ (batchPc = "returned" /\ i < Len(batchOps)) =>
                    /\ Len(batchTrace) = Len(batchOps)
                    /\ \A j \in (i + 1)..Len(batchOps) :
                          batchOps[j] \in BatchCases => batchTrace[j].requests >= 1

\* [A succeeds, B fails with Generic, C succeeds] gives [success, failure,
\* success].
C13_Witness ==
    /\ batchPc = "returned"
    /\ Len(batchOps) = 3
    /\ Len(batchTrace) = 3
    /\ batchTrace[1].outcome = "OK"
    /\ batchTrace[2].outcome = "failed"
    /\ batchTrace[2].kind = "Generic"
    /\ batchTrace[3].outcome = "OK"
    /\ batchResults[1].success
    /\ batchResults[2] = BatchResult(FALSE, Undef, Str("Request failed"))
    /\ batchResults[3].success

\* The calls that have a request on the wire or are between two attempts.
Running == {p \in Calls : pc[p] \in {"attempt", "waitSlot", "inflight", "backoff"}}

\* C23: batch executes its operations strictly in input order and one at a
\* time: the first request of operation i+1 is sent only after operation i
\* has finished (its result recorded), and two operations of one batch are
\* never in flight together.
C23_BatchIsSerial ==
    scenario = "batch" =>
        /\ Running \subseteq {1}
        /\ Running # {} => batchPc = "await"
        /\ batchPc = "await" =>
              /\ batchIdx >= 1
              /\ Len(batchTrace) = batchIdx - 1
              /\ Len(batchResults) = batchIdx - 1
              /\ verb[1] = batchOps[batchIdx]
        /\ batchPc \in {"loop", "returned"} => Len(batchTrace) = batchIdx
        /\ \A i \in 1..Len(batchTrace) : batchTrace[i].method = batchOps[i]

\* Operation 2 has its request on the wire; operation 1 ended before, after
\* two requests.
C23_Witness ==
    /\ scenario = "batch"
    /\ batchPc = "await"
    /\ batchIdx = 2
    /\ pc[1] = "inflight"
    /\ sent[1] = 1
    /\ Len(batchTrace) = 1
    /\ batchTrace[1].requests = 2
    /\ Len(batchOps) = 3

\* C28: every result of a batch recorded with success = true belongs to an
\* operation for which a request was dispatched and succeeded: an operation
\* whose method is not one of GET, POST, PUT, DELETE (PATCH, for example)
\* is never reported as succeeded without a request having been made.
C28_SuccessMeansRequestSucceeded ==
    \A i \in 1..Len(batchResults) :
        batchResults[i].success =>
            /\ batchTrace[i].requests >= 1
            /\ batchTrace[i].outcome = "OK"

(***************************************************************************)
(* The permission gate on its own                                          *)
(***************************************************************************)

GateInit ==
    /\ scenario = "gate"
    /\ config = TestConfig
    /\ authHeaders = NoHeaders
    /\ budget = 1
    /\ ClsIdle
    /\ CallsIdle
    /\ RegIdle
    /\ LfIdle
    /\ PagesIdle
    /\ BatchIdle
    /\ tool \in {[name |-> "tool", meta |-> m] : m \in MetadataSamples}
    /\ caller \in UserSamples
    /\ toolParams = NoToolParams
    /\ toolPc = "gate"
    /\ admitted = FALSE
    /\ missing = <<>>
    /\ toolReqs = <<>>
    /\ toolPending = <<>>
    /\ toolFault = NoThrown
    /\ toolOut = NoOutcome

\* tool.isAvailableForUser(userPermissions) is called.
AskAvailable ==
    /\ scenario = "gate"
    /\ toolPc = "gate"
    /\ admitted' = isAvailableForUser(tool.meta, caller)
    /\ toolPc' = "asked"
    /\ UNCHANGED <<scenario, restVars, clsVars, pgVars, batchVars, logged, clientVars,
                   limiterVars, callVars, tool, caller, toolParams, missing,
                   toolReqs, toolPending, toolFault, toolOut>>

\* tool.getMissingPermissions(userPermissions) is called.
ListMissing ==
    /\ scenario = "gate"
    /\ toolPc = "asked"
    /\ missing' = getMissingPermissions(tool.meta, caller)
    /\ toolPc' = "listed"
    /\ UNCHANGED <<scenario, restVars, clsVars, pgVars, batchVars, logged, clientVars,
                   limiterVars, callVars, tool, caller, toolParams, admitted,
                   toolReqs, toolPending, toolFault, toolOut>>

GateNext ==
    \/ AskAvailable
    \/ ListMissing

SpecGate == GateInit /\ [][GateNext]_vars

(***************************************************************************)
(* Properties of the permission gate                                       *)
(***************************************************************************)

\* The access levels from the least to the greatest.
LevelOrder == <<"READ", "WRITE", "DELETE", "ADMIN">>

Rank(level) == CHOOSE i \in 1..Len(LevelOrder) : LevelOrder[i] = level

Range(s) == {s[i] : i \in 1..Len(s)}

\* The caller's level is at least the minimum and the caller holds every
\* required permission.
Admissible(meta, user) ==
    /\ Rank(user.accessLevel) >= Rank(meta.minimumAccessLevel)
    /\ Range(meta.requiredPermissions) \subseteq user.permissions

\* C14: isAvailableForUser is true exactly when the caller's access level is
\* at least the operation's minimum in the order READ < WRITE < DELETE <
\* ADMIN and every required permission is in the caller's set.
C14_AdmissibleIffLevelAndPermissions ==
    (scenario = "gate" /\ toolPc \in {"asked", "listed"}) =>
        admitted = Admissible(tool.meta, caller)

\* A caller {WRITE, {features:read}} is not admissible where the operation
\* needs {READ, {features:read, features:write}}.
C14_Witness ==
    /\ scenario = "gate"
    /\ toolPc = "asked"
    /\ caller = UserPermissions("WRITE", {"features:read"})
    /\ tool.meta = Metadata(<<"features:read", "features:write">>, "READ")
    /\ ~admitted

\* The elements of s that are not in S, in the order of s.
RECURSIVE Without(_, _)
Without(s, S) ==
    IF s = <<>> THEN <<>>
    ELSE (IF Head(s) \in S THEN <<>> ELSE <<Head(s)>>) \o Without(Tail(s), S)

\* C15: getMissingPermissions returns exactly the required permissions that
\* are absent from the caller's set, whatever the access level; it is empty
\* exactly when the caller holds every required permission.
C15_MissingAreRequiredAbsent ==
    (scenario = "gate" /\ toolPc = "listed") =>
        /\ Range(missing) = Range(tool.meta.requiredPermissions) \ caller.permissions
        /\ Len(missing) = Len(Without(tool.meta.requiredPermissions, caller.permissions))
        /\ (missing = <<>>) <=>
              (Range(tool.meta.requiredPermissions) \subseteq caller.permissions)

\* The access-level check fails and the caller holds what is required:
\* nothing is missing.
C15_Witness ==
    /\ scenario = "gate"
    /\ toolPc = "listed"
    /\ caller = UserPermissions("READ", {"features:read"})
    /\ tool.meta = Metadata(<<"features:read">>, "WRITE")
    /\ missing = <<>>
    /\ ~admitted

\* C29: no access level substitutes for a missing permission: a caller
\* whose set lacks one of the operation's required permissions is not
\* admissible, an ADMIN caller included, and getMissingPermissions names
\* that permission.
C29_LevelNeverReplacesPermission ==
    scenario = "gate" =>
        \A level \in AccessLevels :
            \A perm \in Range(tool.meta.requiredPermissions) \ caller.permissions :
                caller.accessLevel = level =>
                    /\ toolPc \in {"asked", "listed"} => ~admitted
                    /\ toolPc = "listed" => \E i \in 1..Len(missing) : missing[i] = perm

\* An ADMIN caller holding features:read only, where features:read and
\* features:write are required at READ level.
C29_Witness ==
    /\ scenario = "gate"
    /\ toolPc = "listed"
    /\ caller = UserPermissions("ADMIN", {"features:read"})
    /\ tool.meta = Metadata(<<"features:read", "features:write">>, "READ")
    /\ ~admitted
    /\ missing = <<"features:write">>

(***************************************************************************)
(* A tool call: the call handler, BaseTool.execute and the tool's logic    *)
(***************************************************************************)

ToolInit ==
    /\ scenario = "tool"
    /\ config = TestConfig
    /\ authHeaders = NoHeaders
    /\ budget = 1
    /\ ClsIdle
    /\ CallsIdle
    /\ RegIdle
    /\ LfIdle
    /\ PagesIdle
    /\ BatchIdle
    /\ tool \in Tools
    /\ caller \in ToolUserSamples
    /\ toolParams \in ToolParamSamples
    /\ toolPc = "incoming"
    /\ admitted = FALSE
    /\ missing = <<>>
    /\ toolReqs = <<>>
    /\ toolPending = <<>>
    /\ toolFault = NoThrown
    /\ toolOut = NoOutcome

\* Mutant: the handler calls execute without asking the gate.
HandleToolCallUngated ==
    /\ scenario = "tool"
    /\ toolPc = "incoming"
    /\ admitted' = isAvailableForUser(tool.meta, caller)
    /\ missing' = getMissingPermissions(tool.meta, caller)
    /\ toolPc' = "execute"
    /\ UNCHANGED <<scenario, restVars, clsVars, pgVars, batchVars, logged, clientVars,
                   limiterVars, callVars, tool, caller, toolParams, toolReqs,
                   toolPending, toolFault, toolOut>>

\* The call handler, from spec.md 2 and 7: the registry has resolved the
\* tool, the Permission Gate checks the caller, and only an admitted caller's
\* call goes on to execute; the others get a permission denial.
HandleToolCall ==
    /\ scenario = "tool"
    /\ toolPc = "incoming"
    /\ admitted' = isAvailableForUser(tool.meta, caller)
    /\ missing' = getMissingPermissions(tool.meta, caller)
    /\ IF admitted'
       THEN /\ toolPc' = "execute"
            /\ UNCHANGED toolOut
       ELSE /\ toolPc' = "denied"
            /\ toolOut' = PermissionDenied(tool, caller)
    /\ UNCHANGED <<scenario, restVars, clsVars, pgVars, batchVars, logged, clientVars,
                   limiterVars, callVars, tool, caller, toolParams, toolReqs,
                   toolPending, toolFault>>

\* Mutant: execute goes to the logic without validating.
ExecuteUnvalidated ==
    /\ scenario = "tool"
    /\ toolPc = "execute"
    /\ toolPc' = "logic"
    /\ toolPending' = LogicRequests(tool, toolParams)
    /\ UNCHANGED <<scenario, restVars, clsVars, pgVars, batchVars, logged, clientVars,
                   limiterVars, callVars, tool, caller, toolParams, admitted,
                   missing, toolReqs, toolFault, toolOut>>

\* base.ts 36-47: execute validates the params, throws on an invalid verdict
\* and calls executeInternal otherwise.
Execute ==
    /\ scenario = "tool"
    /\ toolPc = "execute"
    /\ IF ~toolParams.valid
       THEN /\ toolPc' = "rejected"
            /\ toolOut' = MCPValidationError(tool)
            /\ UNCHANGED toolPending
       ELSE /\ toolPc' = "logic"
            /\ toolPending' = LogicRequests(tool, toolParams)
            /\ UNCHANGED toolOut
    /\ UNCHANGED <<scenario, restVars, clsVars, pgVars, batchVars, logged, clientVars,
                   limiterVars, callVars, tool, caller, toolParams, admitted,
                   missing, toolReqs, toolFault>>

\* executeInternal hands its next request to the API client and awaits it.
LogicRequest ==
    /\ scenario = "tool"
    /\ toolPc = "logic"
    /\ toolPending # <<>>
    /\ toolReqs' = Append(toolReqs, Head(toolPending))
    /\ toolPc' = "await"
    /\ UNCHANGED <<scenario, restVars, clsVars, pgVars, batchVars, logged, clientVars,
                   limiterVars, callVars, tool, caller, toolParams, admitted,
                   missing, toolPending, toolFault, toolOut>>

\* The API client resolved: executeInternal goes on.
ClientResolves ==
    /\ scenario = "tool"
    /\ toolPc = "await"
    /\ toolPending' = Tail(toolPending)
    /\ toolPc' = "logic"
    /\ UNCHANGED <<scenario, restVars, clsVars, pgVars, batchVars, logged, clientVars,
                   limiterVars, callVars, tool, caller, toolParams, admitted,
                   missing, toolReqs, toolFault, toolOut>>

\* The API client rejected with e: a tool that catches request errors goes
\* on, any other lets e through to the catch of execute (base.ts 49-60).
ClientRejects(e) ==
    /\ scenario = "tool"
    /\ toolPc = "await"
    /\ IF CatchesRequestErrors(tool)
       THEN /\ toolPending' = Tail(toolPending)
            /\ toolPc' = "logic"
            /\ UNCHANGED <<toolFault, toolOut>>
       ELSE /\ toolFault' = e
            /\ toolPc' = "rejected"
            /\ toolOut' = WrapError(tool, e)
            /\ UNCHANGED toolPending
    /\ UNCHANGED <<scenario, restVars, clsVars, pgVars, batchVars, logged, clientVars,
                   limiterVars, callVars, tool, caller, toolParams, admitted,
                   missing, toolReqs>>

\* base.ts 47-48: executeInternal returned, execute resolves with the
\* formatted result.
LogicReturns ==
    /\ scenario = "tool"
    /\ toolPc = "logic"
    /\ toolPending = <<>>
    /\ toolPc' = "resolved"
    /\ toolOut' = FormattedResult
    /\ UNCHANGED <<scenario, restVars, clsVars, pgVars, batchVars, logged, clientVars,
                   limiterVars, callVars, tool, caller, toolParams, admitted,
                   missing, toolReqs, toolPending, toolFault>>

ToolNext ==
    \/ HandleToolCall
    \/ Execute
    \/ LogicRequest
    \/ ClientResolves
    \/ \E e \in FaultSamples : ClientRejects(e)
    \/ LogicReturns

SpecTool == ToolInit /\ [][ToolNext]_vars

(***************************************************************************)
(* Properties of a tool call                                               *)
(***************************************************************************)

C17_InvalidParamsRejected ==
    (scenario = "tool" /\ ~toolParams.valid) =>
        /\ toolPc \in {"incoming", "denied", "execute", "rejected"}
        /\ toolReqs = <<>>
        /\ toolPending = <<>>
        /\ toolPc = "rejected" =>
              /\ toolOut.kind = "ValidationError"
              /\ toolOut.message = "Invalid parameters for tool " \o tool.name

C17_Witness ==
    /\ scenario = "tool"
    /\ tool = ListNotesTool
    /\ ~toolParams.valid
    /\ toolPc = "rejected"
    /\ toolOut.kind = "ValidationError"
    /\ toolOut.message = "Invalid parameters for tool pb_note_list"
    /\ toolReqs = <<>>

\* list-notes, attach-note, list-features: no try/catch around the request.
LetsErrorsThrough(t) == t.name \in {"pb_note_list", "pb_note_attach", "pb_feature_list"}

\* C18: when the logic of a tool that does not catch its own errors throws,
\* execute rejects with a ToolExecutionError whose message is 'Tool <name>
\* execution failed: <original message>' and which carries the tool name and
\* the original error; it never resolves with a success result.
C18_LogicErrorWrapped ==
    (scenario = "tool" /\ LetsErrorsThrough(tool) /\ toolFault # NoThrown) =>
        /\ toolPc = "rejected"
        /\ toolOut.kind = "ToolExecutionError"
        /\ toolOut.message =
              "Tool " \o tool.name \o " execution failed: " \o toolFault.message
        /\ toolOut.toolName = tool.name
        /\ toolOut.cause = toolFault

C18_Witness ==
    /\ scenario = "tool"
    /\ tool = ListNotesTool
    /\ toolFault = Thrown(TRUE, "API Error")
    /\ toolPc = "rejected"
    /\ toolOut.message = "Tool pb_note_list execution failed: API Error"
    /\ Len(toolReqs) = 1

\* C20: GlobalSearchTool requests GET /features with no query parameters
\* (params = {}): the limit parameter is not sent on the /features call.
C20_FeaturesRequestHasNoParams ==
    (scenario = "tool" /\ tool = GlobalSearchTool) =>
        \A i \in 1..Len(toolReqs) :
            toolReqs[i].endpoint = "/features" =>
                /\ toolReqs[i].method = "GET"
                /\ toolReqs[i].query = NoQuery

\* C22: every outbound attempt of a call, each retry included, is preceded
\* by exactly one slot acquisition on the 'global' limiter, and the request
\* is not sent before the acquisition has returned: a call that has sent k
\* requests has acquired exactly k slots, and a call that ended after k
\* attempts acquired exactly k.
C22_OneSlotPerAttempt ==
    scenario \in {"dispatch", "rate"} =>
        \A p \in Calls :
            /\ slots[p] = sent[p]
            /\ pc[p] = "waitSlot" => sent[p] = attempts[p] - 1
            /\ pc[p] \in {"inflight", "backoff", "done"} => slots[p] = attempts[p]
            /\ pc[p] = "failed" => slots[p] = attempts[p]
            /\ Len(hist[p]) <= slots[p]

C22_Witness ==
    \E p \in Calls :
        /\ pc[p] = "done"
        /\ hist[p] = <<"ServerError", "RateLimited", "OK">>
        /\ attempts[p] = 3
        /\ slots[p] = 3
        /\ sent[p] = 3

\* d doubled k - 1 times.
RECURSIVE Doubled(_, _)
Doubled(d, k) == IF k <= 1 THEN d ELSE 2 * Doubled(d, k - 1)

\* The configured retryDelay, 1000 ms when it is not set.
ConfiguredDelay == IF config.retryDelay = 0 THEN 1000 ELSE config.retryDelay

\* C26: the wait inserted between attempt k and attempt k+1 of one logical
\* call is min(initialDelay * 2^(k-1), maxDelay); with initialDelay 1000 ms
\* by default and maxDelay 30000 ms the waits are 1000, 2000, 4000, ... and
\* never exceed 30000.
C26_BackoffDoublesToCap ==
    scenario \in {"dispatch", "rate"} =>
        \A p \in Calls : \A k \in 1..Len(waits[p]) :
            LET doubled == Doubled(ConfiguredDelay, k)
            IN  /\ waits[p][k] = (IF doubled <= 30000 THEN doubled ELSE 30000)
                /\ waits[p][k] <= 30000
                /\ config.retryDelay = 0 => waits[p][k] = <<1000, 2000, 4000, 8000>>[k]

\* An initial delay of 20000 ms: the second wait is capped at 30000.
C26_Witness ==
    \E p \in Calls :
        /\ config.retryDelay = 20000
        /\ attempts[p] = 3
        /\ waits[p] = <<20000, 30000>>

(***************************************************************************)
(* The registry on its own                                                 *)
(***************************************************************************)

RegistryInit ==
    /\ scenario = "registry"
    /\ config = TestConfig
    /\ authHeaders = NoHeaders
    /\ budget = 1
    /\ ClsIdle
    /\ CallsIdle
    /\ PagesIdle
    /\ BatchIdle
    /\ ToolIdle
    /\ LfIdle
    /\ registry = <<>>
    /\ regPolicy \in {"reject", "overwrite"}
    /\ regDone = <<>>
    /\ regPc = "open"
    /\ resolved = NotAsked

\* registry.registerTool(t)
RegisterTool(t) ==
    /\ scenario = "registry"
    /\ regPc = "open"
    /\ Len(regDone) < MaxRegistrations
    /\ regDone' = Append(regDone, t)
    /\ registry' = Register(registry, t, regPolicy)
    /\ UNCHANGED <<scenario, clsVars, pgVars, batchVars, toolVars, lfVars, logged,
                   clientVars, limiterVars, callVars, regPolicy, regPc, resolved>>

\* registry.getTool(name), as the call handler resolves an incoming call.
Resolve(name) ==
    /\ scenario = "registry"
    /\ regPc = "open"
    /\ resolved' = GetTool(registry, name)
    /\ UNCHANGED <<scenario, clsVars, pgVars, batchVars, toolVars, lfVars, logged,
                   clientVars, limiterVars, callVars, registry, regPolicy,
                   regDone, regPc>>

RegistryNext ==
    \/ \E t \in RegToolSamples : RegisterTool(t)
    \/ \E name \in RegNameSamples : Resolve(name)

SpecRegistry == RegistryInit /\ [][RegistryNext]_vars

(***************************************************************************)
(* Properties of the registry                                              *)
(***************************************************************************)

DistinctNames(ts) ==
    \A i, j \in 1..Len(ts) : i # j => ts[i].name # ts[j].name

\* C21: after registering tools with pairwise distinct names the registry
\* resolves each registered name to the tool registered under it and its
\* size is the number of registered tools; resolving a name never
\* registered gives the absence signal, not some other tool; names stay
\* unique in the registry after any sequence of registrations.
C21_RegistryResolves ==
    scenario = "registry" =>
        /\ DistinctNames(registry)
        /\ DistinctNames(regDone) =>
              /\ Size(registry) = Len(regDone)
              /\ \A i \in 1..Len(regDone) :
                    GetTool(registry, regDone[i].name) =
                        Resolved(regDone[i].name, TRUE, regDone[i])
        /\ \A name \in RegNameSamples :
              (\A i \in 1..Len(regDone) : regDone[i].name # name) =>
                  GetTool(registry, name) = Absent(name)
        /\ resolved.found =>
              /\ resolved.tool.name = resolved.name
              /\ \E i \in 1..Len(regDone) : regDone[i] = resolved.tool

C21_Witness ==
    /\ scenario = "registry"
    /\ regDone = <<GlobalSearchTool, ListNotesTool>>
    /\ Size(registry) = 2
    /\ resolved = Absent("pb_unknown_tool")
    /\ GetTool(registry, "pb_search").tool = GlobalSearchTool

(***************************************************************************)
(* ListFeaturesTool on its own                                             *)
(***************************************************************************)

ListFeaturesInit ==
    /\ scenario = "features"
    /\ config = TestConfig
    /\ authHeaders = NoHeaders
    /\ budget = 1
    /\ ClsIdle
    /\ CallsIdle
    /\ PagesIdle
    /\ BatchIdle
    /\ ToolIdle
    /\ RegIdle
    /\ lfHeld \in 0..MaxItems
    /\ lfParams \in {ListParams(o, l) : o \in 0..MaxItems, l \in 0..MaxLimit}
    /\ lfPc = "idle"
    /\ lfQuery = NoQuery
    /\ lfShown = <<>>

\* list-features.ts 90-113: executeInternal builds the query and calls
\* apiClient.get('/features', queryParams).
ListFeatures ==
    /\ scenario = "features"
    /\ lfPc = "idle"
    /\ lfQuery' = FeaturesQuery(lfParams)
    /\ lfPc' = "await"
    /\ UNCHANGED <<scenario, clsVars, pgVars, batchVars, toolVars, regVars, logged,
                   clientVars, limiterVars, callVars, lfHeld, lfParams, lfShown>>

\* list-features.ts 115-236: the service's page arrives; the features are
\* filtered, sorted, sliced and summarised.
FeaturesReturned ==
    /\ scenario = "features"
    /\ lfPc = "await"
    /\ \E q \in lfQuery :
          lfShown' = PaginatedFeatures(FeaturesPage(lfHeld, q[2]), lfParams)
    /\ lfPc' = "done"
    /\ UNCHANGED <<scenario, clsVars, pgVars, batchVars, toolVars, regVars, logged,
                   clientVars, limiterVars, callVars, lfHeld, lfParams, lfQuery>>

ListFeaturesNext ==
    \/ ListFeatures
    \/ FeaturesReturned

SpecListFeatures == ListFeaturesInit /\ [][ListFeaturesNext]_vars

\* C30: called with offset o and limit l, ListFeaturesTool shows the
\* features at positions o .. o+l-1 of the filtered, sorted list of matching
\* features the service holds: when the service holds more than o matching
\* features, a call with o >= l still shows features instead of
\* 'No features found.'.
C30_ShowsRequestedWindow ==
    (scenario = "features" /\ lfPc = "done") =>
        /\ lfShown = Slice(lfHeld, lfParams.offset,
                           IF lfParams.limit = 0 THEN 20 ELSE lfParams.limit)
        /\ lfHeld > lfParams.offset => Summary(lfShown) # "No features found."

(***************************************************************************)
(* The classifier on its own                                               *)
(***************************************************************************)

ClassifyInit ==
    /\ scenario = "classify"
    /\ clsIn \in ErrorResponses
    /\ clsOut = NoError
    /\ clsPc = "raw"
    /\ config = TestConfig
    /\ authHeaders = NoHeaders
    /\ budget = 1
    /\ CallsIdle
    /\ RegIdle
    /\ LfIdle
    /\ PagesIdle
    /\ BatchIdle
    /\ ToolIdle

\* The response interceptor hands an error response to handleAPIError.
Classify ==
    /\ scenario = "classify"
    /\ clsPc = "raw"
    /\ clsOut' = handleAPIError(clsIn)
    /\ clsPc' = "classified"
    /\ UNCHANGED <<scenario, restVars, clsIn, clientVars, limiterVars, callVars,
                   pgVars, logged, batchVars, toolVars>>

ClassifyNext == Classify

SpecClassify == ClassifyInit /\ [][ClassifyNext]_vars

(***************************************************************************)
(* Properties of the classifier                                            *)
(***************************************************************************)

\* The kind C7 names for a status.
ClaimedKind(st) ==
    CASE st = 400 -> "Validation"
      [] st = 401 -> "Authentication"
      [] st = 403 -> "Authorization"
      [] st = 404 -> "NotFound"
      [] st = 429 -> "RateLimited"
      [] st >= 500 /\ st <= 599 -> "ServerError"
      [] OTHER -> "Generic"

\* C7: a failure with status s is classified as 400 -> Validation, 401 ->
\* Authentication, 403 -> Authorization, 404 -> NotFound, 429 -> RateLimited,
\* 500..599 -> ServerError(s), every other status -> Generic(s).
C7_StatusMapping ==
    clsPc = "classified" =>
        /\ clsOut.kind = ClaimedKind(clsIn.status)
        /\ clsOut.status = clsIn.status

\* The body has the field: it is there, whatever its value.
HasField(x) == x.t # "undef"

\* The field as a string: itself, or what stringifying it gives.
AsText(x, whenObject) == IF x.t = "str" THEN x ELSE whenObject

\* C27: the classified error's message is the body's top-level 'message'
\* field when the body has one, else its 'error' field (stringified if not a
\* string), else its 'errors' field (stringified), else the raw failure's
\* own message; the choice depends only on which fields the body has, for
\* every status code.
C27_MessagePrecedence ==
    clsPc = "classified" =>
        LET body == clsIn.data
        IN  clsOut.message =
                (IF body.present /\ HasField(body.message)
                    THEN AsText(body.message, Str("[object Object]"))
                 ELSE IF body.present /\ HasField(body.error)
                    THEN AsText(body.error, Json(body.error.v))
                 ELSE IF body.present /\ HasField(body.errors)
                    THEN AsText(body.errors, Json(body.errors.v))
                 ELSE Str(clsIn.message))

\* The field has a value that counts: not undefined and not the empty string.
NonEmptyField(x) == HasField(x) /\ x # Str("")

\* C27, amended: the message is the body's 'message' field when it is there
\* and not empty (falsy), else the 'error' field on the same condition, else
\* the 'errors' field, else the raw failure's own message; an empty field is
\* passed over like a missing one.  The choice depends only on the body.
C27_MessagePrecedenceNonEmpty ==
    clsPc = "classified" =>
        LET body == clsIn.data
        IN  clsOut.message =
                (IF body.present /\ NonEmptyField(body.message)
                    THEN AsText(body.message, Str("[object Object]"))
                 ELSE IF body.present /\ NonEmptyField(body.error)
                    THEN AsText(body.error, Json(body.error.v))
                 ELSE IF body.present /\ NonEmptyField(body.errors)
                    THEN AsText(body.errors, Json(body.errors.v))
                 ELSE Str(clsIn.message))

\* A body {message: '', error: 'e'} on a 503: the message is 'e'.
C27_Witness ==
    /\ clsPc = "classified"
    /\ clsIn.status = 503
    /\ clsIn.data.message = Str("")
    /\ clsIn.data.error = Str("e")
    /\ clsOut.message = Str("e")

AllDigits(cs) == cs # <<>> /\ \A i \in 1..Len(cs) : IsDigit(cs[i])

NoDigit(cs) == \A i \in 1..Len(cs) : ~IsDigit(cs[i])

RECURSIVE DecimalValue(_)
DecimalValue(cs) ==
    IF cs = <<>> THEN 0
    ELSE 10 * DecimalValue(SubSeq(cs, 1, Len(cs) - 1)) + DigitVal(Last(cs))

\* C9: for a 429 the error's retryAfterSeconds is the number in the
\* retry-after header, and 60 when the header is absent or holds no number.
C9_RetryAfterSeconds ==
    (clsPc = "classified" /\ clsIn.status = 429) =>
        LET h == clsIn.retryAfter
        IN  /\ (h.present /\ AllDigits(h.chars))
                  => clsOut.retryAfter = Num(DecimalValue(h.chars))
            /\ (~h.present \/ NoDigit(h.chars))
                  => clsOut.retryAfter = Num(60)

====
